---- MODULE Spec2Model ----
(***************************************************************************)
(* Model of the farm decision engine of qq-farm-bot: the patrol cycle      *)
(* checkFarm, its replant pipeline autoPlantEmptyLands, the retry cooldown *)
(* maps, the land classifier and the login-time expansion entry point.     *)
(* JavaScript runs every callback to completion, so each action below is   *)
(* one resumption of an async function: it consumes one response (or one   *)
(* timer) and runs the synchronous code up to the next await.              *)
(***************************************************************************)
EXTENDS Integers, Sequences, FiniteSets, TLC

\* ------------------------------------------------------------------ bounds
\* number of plots in a snapshot
NLands == 2
\* number of cycles that acquire the flag in one behaviour
MaxCycles == 2
\* number of clock advances in one behaviour
MaxTicks == 2
\* number of expandLandsOnLogin invocations in one behaviour
MaxExpands == 1
\* minutes the cooldown maps are followed for, and the minutes during which
\* failures are recorded
MaxMinutes == 11
MaxRecordMinutes == 2
\* number of plots of the farm that is only planted
PlantLands == 3
MaxLoops == 2

\* --------------------------------------------------------------- constants
EXPAND_RETRY_INTERVAL_MS == 10 * 60 * 1000
MINUTE_MS == 60 * 1000
\* Date.now() at the start of a behaviour, and the step of the model clock
StartMs == 1000 * 1000
TickMs == 5 * MINUTE_MS
LandIds == 1..NLands
Callers == {"loop", "push", "direct"}
\* unit prices the seed shop may quote, and the gold of the account at start
Prices == {100}
StartGold == {250}
\* the same for the farm that is only planted
PlantingPrices == {100, 125}
PlantingGold == {0, 99, 100, 250, 300}
\* gold enough for every purchase of the scenario farm: three seeds at 100 in
\* each cycle
ScenarioGold == {300 * MaxCycles}

\* ----------------------------------------------------------------- helpers
ToSet(s) == {s[i] : i \in DOMAIN s}

Ids(lands) == [i \in DOMAIN lands |-> lands[i].id]

Slice(s, n) == SubSeq(s, 1, IF n < Len(s) THEN n ELSE Len(s))

\* Map.delete for every id of a list
MapDelete(m, ids) == [k \in (DOMAIN m) \ ToSet(ids) |-> m[k]]

\* Map.set(id, t) for every id of a list
MapSet(m, ids, t) == [k \in (DOMAIN m) \cup ToSet(ids) |-> IF k \in ToSet(ids) THEN t ELSE m[k]]

EmptyMap == [k \in {} |-> 0]

\* ------------------------------------------------------------------- clock
GetServerTimeSecAt(srvMs, syncAt, localNow) ==
    IF srvMs = 0 THEN localNow \div 1000
    ELSE (srvMs + (localNow - syncAt)) \div 1000

\* n > 1e12, written so that no intermediate value leaves 32 bits
IsMillis(n) ==
    \/ n \div 1000000 > 1000000
    \/ n \div 1000000 = 1000000 /\ n % 1000000 > 0

ToTimeSec(n) ==
    IF n <= 0 THEN 0
    ELSE IF IsMillis(n) THEN n \div 1000
    ELSE n

\* ------------------------------------------------------------ land phases
PlantPhase == [SEED |-> "SEED", GROWING |-> "GROWING", MATURE |-> "MATURE", DEAD |-> "DEAD"]

Phase(kind, begin, dry, weeds, insect) ==
    [phase |-> kind, begin_time |-> begin, dry_time |-> dry,
     weeds_time |-> weeds, insect_time |-> insect]

\* the last phase whose begin time is set and not in the future, else the
\* first phase; <<>> stands for null, <<p>> for the phase p
RECURSIVE ScanPhases(_, _, _)
ScanPhases(phases, i, nowSec) ==
    IF i < 1 THEN <<phases[1]>>
    ELSE LET beginTime == ToTimeSec(phases[i].begin_time)
         IN  IF beginTime > 0 /\ beginTime <= nowSec THEN <<phases[i]>>
             ELSE ScanPhases(phases, i - 1, nowSec)

\* the scan taken from the front of the list
GetCurrentPhaseFirstMatch(phases, nowSec) ==
    LET begun == {i \in DOMAIN phases : ToTimeSec(phases[i].begin_time) > 0
                                        /\ ToTimeSec(phases[i].begin_time) <= nowSec}
    IN  IF Len(phases) = 0 THEN <<>>
        ELSE IF begun = {} THEN <<phases[1]>>
        ELSE <<phases[CHOOSE i \in begun : \A j \in begun : i <= j]>>

GetCurrentPhase(phases, nowSec) ==
    IF Len(phases) = 0 THEN <<>> ELSE ScanPhases(phases, Len(phases), nowSec)

\* ------------------------------------------------------------ classifier
\* land.plant is <<>> for no plant and <<plant>> otherwise
IsEmptyLand(land) == Len(land.plant) = 0 \/ Len(land.plant[1].phases) = 0

CurrentPhaseOf(land, nowSec) == GetCurrentPhase(land.plant[1].phases, nowSec)

\* the primary bucket of a land: "locked", "empty", "dead", "harvestable", "growing"
LandBucket(land, nowSec) ==
    IF ~land.unlocked THEN "locked"
    ELSE IF IsEmptyLand(land) THEN "empty"
    ELSE LET cur == CurrentPhaseOf(land, nowSec)
         IN  IF Len(cur) = 0 THEN "empty"
             ELSE IF cur[1].phase = PlantPhase.DEAD THEN "dead"
             ELSE IF cur[1].phase = PlantPhase.MATURE THEN "harvestable"
             ELSE "growing"

Due(t, nowSec) == ToTimeSec(t) > 0 /\ ToTimeSec(t) <= nowSec

\* both signals required
NeedsWaterBoth(land, nowSec) ==
    /\ LandBucket(land, nowSec) = "growing"
    /\ land.plant[1].dry_num > 0
    /\ Due(CurrentPhaseOf(land, nowSec)[1].dry_time, nowSec)

NeedsWater(land, nowSec) ==
    /\ LandBucket(land, nowSec) = "growing"
    /\ \/ land.plant[1].dry_num > 0
       \/ Due(CurrentPhaseOf(land, nowSec)[1].dry_time, nowSec)

\* the weed test made before the test for a ripe plant
NeedsWeedRipe(land, nowSec) ==
    /\ LandBucket(land, nowSec) \in {"growing", "harvestable"}
    /\ \/ land.plant[1].weed_owners > 0
       \/ Due(CurrentPhaseOf(land, nowSec)[1].weeds_time, nowSec)

NeedsWeed(land, nowSec) ==
    /\ LandBucket(land, nowSec) = "growing"
    /\ \/ land.plant[1].weed_owners > 0
       \/ Due(CurrentPhaseOf(land, nowSec)[1].weeds_time, nowSec)

NeedsBug(land, nowSec) ==
    /\ LandBucket(land, nowSec) = "growing"
    /\ \/ land.plant[1].insect_owners > 0
       \/ Due(CurrentPhaseOf(land, nowSec)[1].insect_time, nowSec)

\* the upgrade candidates taken before the test of land.unlocked
AnalyzeLandsUpgradeLocked(lands, nowSec) ==
    [harvestable |-> Ids(SelectSeq(lands, LAMBDA l : LandBucket(l, nowSec) = "harvestable")),
     needWater   |-> Ids(SelectSeq(lands, LAMBDA l : NeedsWater(l, nowSec))),
     needWeed    |-> Ids(SelectSeq(lands, LAMBDA l : NeedsWeed(l, nowSec))),
     needBug     |-> Ids(SelectSeq(lands, LAMBDA l : NeedsBug(l, nowSec))),
     growing     |-> Ids(SelectSeq(lands, LAMBDA l : LandBucket(l, nowSec) = "growing")),
     empty       |-> Ids(SelectSeq(lands, LAMBDA l : LandBucket(l, nowSec) = "empty")),
     dead        |-> Ids(SelectSeq(lands, LAMBDA l : LandBucket(l, nowSec) = "dead")),
     eligibleForUnlock  |-> Ids(SelectSeq(lands, LAMBDA l : l.could_unlock /\ ~l.unlocked)),
     eligibleForUpgrade |-> Ids(SelectSeq(lands, LAMBDA l : l.could_upgrade))]

AnalyzeLands(lands, nowSec) ==
    [harvestable |-> Ids(SelectSeq(lands, LAMBDA l : LandBucket(l, nowSec) = "harvestable")),
     needWater   |-> Ids(SelectSeq(lands, LAMBDA l : NeedsWater(l, nowSec))),
     needWeed    |-> Ids(SelectSeq(lands, LAMBDA l : NeedsWeed(l, nowSec))),
     needBug     |-> Ids(SelectSeq(lands, LAMBDA l : NeedsBug(l, nowSec))),
     growing     |-> Ids(SelectSeq(lands, LAMBDA l : LandBucket(l, nowSec) = "growing")),
     empty       |-> Ids(SelectSeq(lands, LAMBDA l : LandBucket(l, nowSec) = "empty")),
     dead        |-> Ids(SelectSeq(lands, LAMBDA l : LandBucket(l, nowSec) = "dead")),
     eligibleForUnlock  |-> Ids(SelectSeq(lands, LAMBDA l : l.could_unlock /\ ~l.unlocked)),
     eligibleForUpgrade |-> Ids(SelectSeq(lands, LAMBDA l : l.unlocked /\ l.could_upgrade))]

NoStatus == AnalyzeLands(<<>>, 0)

\* ------------------------------------------------------------- snapshots
Plant(phases, dry) == <<[phases |-> phases, dry_num |-> dry, weed_owners |-> 0, insect_owners |-> 0]>>

\* the plant of a land, by kind; begin time 1 is long past, 0 is unset
PlantOf(kind) ==
    CASE kind = "none"    -> <<>>
      [] kind = "dead"    -> Plant(<<Phase(PlantPhase.DEAD, 1, 0, 0, 0)>>, 0)
      [] kind = "mature"  -> Plant(<<Phase(PlantPhase.GROWING, 1, 0, 0, 0), Phase(PlantPhase.MATURE, 2, 0, 0, 0)>>, 0)
      [] kind = "needy"   -> Plant(<<Phase(PlantPhase.GROWING, 1, 1, 1, 1)>>, 0)
      [] kind = "dry"     -> Plant(<<Phase(PlantPhase.GROWING, 1, 0, 0, 0)>>, 1)
      [] kind = "thirsty" -> Plant(<<Phase(PlantPhase.GROWING, 1, 1, 0, 0)>>, 0)

Land(id, unlocked, couldUnlock, couldUpgrade, kind) ==
    [id |-> id, unlocked |-> unlocked, could_unlock |-> couldUnlock,
     could_upgrade |-> couldUpgrade, plant |-> PlantOf(kind)]

\* what the server may report for plot id
LandChoices(id) ==
    {Land(id, FALSE, TRUE, FALSE, "none"),
     Land(id, TRUE, FALSE, FALSE, "none"),
     Land(id, TRUE, FALSE, TRUE, "none"),
     Land(id, TRUE, FALSE, TRUE, "dead"),
     Land(id, TRUE, FALSE, TRUE, "mature"),
     Land(id, TRUE, FALSE, FALSE, "needy"),
     Land(id, TRUE, FALSE, FALSE, "dry")}

\* AllLandsReply.lands: no land at all, or one report per plot
Snapshots ==
    {<<>>} \cup {s \in [LandIds -> UNION {LandChoices(id) : id \in LandIds}] :
                    \A id \in LandIds : s[id].id = id}

\* a few farms: no land; all locked; one ripe and one dead plot, both
\* upgradable; one plot needing care beside an empty one; all empty
MixedSnapshots ==
    {<<>>,
     [id \in LandIds |-> Land(id, FALSE, TRUE, FALSE, "none")],
     [id \in LandIds |-> Land(id, TRUE, FALSE, TRUE, IF id = 1 THEN "dead" ELSE "mature")],
     [id \in LandIds |-> Land(id, TRUE, FALSE, FALSE, IF id = 1 THEN "needy" ELSE "none")],
     [id \in LandIds |-> Land(id, TRUE, FALSE, FALSE, "none")]}

\* a farm of PlantLands plots, each locked for good or empty
PlantingSnapshots ==
    {s \in [1..PlantLands -> UNION {{Land(id, FALSE, FALSE, FALSE, "none"),
                                      Land(id, TRUE, FALSE, FALSE, "none")} : id \in 1..PlantLands}] :
        \A id \in 1..PlantLands : s[id].id = id}

\* one farm: plot 1 dead, plot 2 ripe, plot 3 empty, plot 4 growing with its
\* dry timer elapsed, none of them an upgrade candidate
ScenarioSnapshot ==
    <<Land(1, TRUE, FALSE, FALSE, "dead"), Land(2, TRUE, FALSE, FALSE, "mature"),
      Land(3, TRUE, FALSE, FALSE, "none"), Land(4, TRUE, FALSE, FALSE, "thirsty")>>

\* the snapshots of a farm whose plots are all locked, or ripe and upgradable
ExpandSnapshots ==
    {s \in Snapshots : \A k \in DOMAIN s :
        ~s[k].unlocked \/ (s[k].could_upgrade /\ LandBucket(s[k], 2) = "harvestable")}

\* ------------------------------------------------------------------ state
VARIABLES
    now,                    \* Date.now(), in ms
    serverTimeMs,           \* utils.js: server time at the last sync (0: never)
    localTimeAtSync,        \* utils.js: Date.now() at the last sync
    gid,                    \* getUserState().gid (0 before login)
    gold,                   \* getUserState().gold
    autoExpandLand,         \* CONFIG.autoExpandLand
    autoUpgradeRedLand,     \* CONFIG.autoUpgradeRedLand
    isCheckingFarm,         \* the in-flight flag of checkFarm
    upgradeRetryCooldown,   \* landId -> lastFailedMs
    unlockRetryCooldown,    \* landId -> lastFailedMs
    inv,                    \* the activations of checkFarm, one slot per caller
    xp,                     \* the activation of expandLandsOnLogin
    calls,                  \* requests issued by the cycles since the last acquisition
    expansion,              \* what unlockLand and upgradeLand returned since then, and when
    cycles,                 \* number of acquisitions so far
    expands,                \* number of expandLandsOnLogin invocations so far
    expandPre,              \* cooldown entries that were there when the pending
                            \* expandLandsOnLogin was invoked and were not rewritten since
    farm,                   \* which farm the server reports on: see World
    lastPushTime,           \* Date.now() of the last accepted landsChanged push
    pushTimers,             \* the pending timers of onLandsChangedPush: when each is due
    arg,                    \* the argument of the function under study
    result,                 \* what it returned
    farmLoopRunning,        \* the running flag of the patrol loop
    farmCheckTimer,         \* the startup timer: <<>> for null, <<timer>> for a handle
    landStatsTimer,         \* whether the summary interval is set
    listening,              \* whether onLandsChangedPush is subscribed to 'landsChanged'
    loops,                  \* the activations of farmCheckLoop, by slot
    platform,               \* CONFIG.platform: "qq" or "wx"
    isReconnecting,         \* client.js: a disconnect is being handled
    reconnectAttempts,      \* client.js: reconnects since the last successful login
    loginTimeoutAttempts,   \* client.js: login timeouts since the last successful login
    progressInterval,       \* client.js: whether the progress interval is set
    services,               \* which of the friend, task and sell loops are started
    ws,                     \* the socket: "none", "open" (logging in), "in" (logged in)
                            \* or "closed"
    main,                   \* where main() is: "start", "scan" or "done"
    handlers,               \* the activations of handleDisconnect, by slot
    exited,                 \* process.exit was called
    disconnects             \* the 'disconnected' events emitted so far: the reason of
                            \* each and whether it was ignored

clockVars == <<serverTimeMs, localTimeAtSync>>
configVars == <<gid, autoExpandLand, autoUpgradeRedLand, farm>>
cooldownVars == <<upgradeRetryCooldown, unlockRetryCooldown>>
pushVars == <<lastPushTime, pushTimers>>
probeVars == <<arg, result>>
schedVars == <<farmLoopRunning, farmCheckTimer, landStatsTimer, listening, loops>>
supVars == <<platform, isReconnecting, reconnectAttempts, loginTimeoutAttempts, progressInterval,
             services, ws, main, handlers, exited, disconnects>>
\* what a call of checkFarm can read or write
farmVars == <<gold, isCheckingFarm, upgradeRetryCooldown, unlockRetryCooldown, inv, calls,
              expansion, cycles>>
vars == <<now, serverTimeMs, localTimeAtSync, gid, gold, autoExpandLand, autoUpgradeRedLand,
          isCheckingFarm, upgradeRetryCooldown, unlockRetryCooldown, inv, xp, calls,
          expansion, cycles, expands, expandPre, farm, lastPushTime, pushTimers, arg, result,
          farmLoopRunning, farmCheckTimer, landStatsTimer, listening, loops, platform,
          isReconnecting, reconnectAttempts, loginTimeoutAttempts, progressInterval, services,
          ws, main, handlers, exited, disconnects>>

\* a slot with no activation of farmCheckLoop
NoLoop == [pc |-> "none", left |-> 0, waited |-> 0]

\* the scheduler before startFarmCheckLoop
SchedIdle ==
    /\ farmLoopRunning = FALSE
    /\ farmCheckTimer = <<>>
    /\ landStatsTimer = FALSE
    /\ listening = FALSE
    /\ loops = [k \in 1..MaxLoops |-> NoLoop]

MaxHandlers == 2
\* a slot with no activation of handleDisconnect
NoHandler == [pc |-> "none", delay |-> 0, reason |-> ""]

\* client.js loaded, main() not yet run
SupIdle ==
    /\ platform = "qq"
    /\ isReconnecting = FALSE
    /\ reconnectAttempts = 0
    /\ loginTimeoutAttempts = 0
    /\ progressInterval = FALSE
    /\ services = {}
    /\ ws = "none"
    /\ main = "start"
    /\ handlers = [h \in 1..MaxHandlers |-> NoHandler]
    /\ exited = FALSE
    /\ disconnects = <<>>

\* the snapshots getAllLands may return in this behaviour
World ==
    CASE farm = "any" -> Snapshots
      [] farm = "expanding" -> ExpandSnapshots
      [] farm = "mixed" -> MixedSnapshots
      [] farm = "planting" -> PlantingSnapshots
      [] farm = "scenario" -> {ScenarioSnapshot}
      [] farm = "retry" -> {<<>>, <<Land(1, TRUE, FALSE, FALSE, "thirsty")>>}
      [] farm = "fallow" -> {<<Land(1, TRUE, FALSE, TRUE, "none"), Land(2, TRUE, FALSE, FALSE, k2),
                               Land(3, TRUE, FALSE, FALSE, k3)>> :
                                  k2 \in {"none", "mature", "dead", "dry"},
                                  k3 \in {"none", "mature", "dry"}}
      [] OTHER -> {<<>>}

\* how a request may end: answered (TRUE) or rejected (FALSE); on the
\* scenario farm every request is answered
Replies == IF farm \in {"scenario", "fallow"} THEN {TRUE} ELSE BOOLEAN

GetServerTimeSec == GetServerTimeSecAt(serverTimeMs, localTimeAtSync, now)

NoResult == [tried |-> <<>>, ok |-> <<>>, fail |-> <<>>, at |-> 0]

NoExpansion == [unlock |-> NoResult, upgrade |-> NoResult]

\* the locals of one activation of checkFarm (and of the helpers it awaits)
IdleInv ==
    [pc |-> "idle",
     status |-> NoStatus,
     pending |-> {},            \* maintenance calls not settled yet
     done |-> {},               \* maintenance calls that succeeded (actions)
     lost |-> {},               \* maintenance calls that failed
     harvestedLandIds |-> <<>>,
     clearedByHarvest |-> {},   \* ids whose upgrade cooldown the harvest deleted
     list |-> <<>>,             \* landIds of the running single-item loop
     i |-> 0,                   \* its position
     okIds |-> <<>>,
     failIds |-> <<>>,
     failedUpgradeIds |-> <<>>,
     deadLandIds |-> <<>>,
     landsToPlant |-> <<>>,
     price |-> 0,
     plantedLands |-> <<>>,
     needCount |-> 0,           \* landsToPlant.length before the affordability check
     bought |-> FALSE,          \* buyGoods has returned in this activation
     plantOk |-> <<>>]          \* the ids whose plant request succeeded

\* the locals of the activation of expandLandsOnLogin; of status it reads
\* eligibleForUnlock and eligibleForUpgrade only
IdleXp == [pc |-> "idle", toUnlock |-> <<>>, toUpgrade |-> <<>>, list |-> <<>>, i |-> 0]

Call(op, ids) == [op |-> op, ids |-> ids]

\* "!t || now - t >= EXPAND_RETRY_INTERVAL_MS" for t = map.get(id)
\* a window that is still closed at exactly the retry interval
CooldownPassesStrict(m, id, t) ==
    \/ id \notin DOMAIN m
    \/ m[id] = 0
    \/ t - m[id] > EXPAND_RETRY_INTERVAL_MS

CooldownPasses(m, id, t) ==
    \/ id \notin DOMAIN m
    \/ m[id] = 0
    \/ t - m[id] >= EXPAND_RETRY_INTERVAL_MS

\* no filter at all
CooldownFilterAll(ids, m, t) == ids

CooldownFilter(ids, m, t) == SelectSeq(ids, LAMBDA id : CooldownPasses(m, id, t))

\* --------------------------------------------------- the cycle, step by step
\* The state a cycle works on: l its locals, busy the flag isCheckingFarm,
\* up/un the cooldown maps, log the requests issued, pre the entries still
\* standing from before the pending expandLandsOnLogin.
Ctx(c) ==
    [l |-> inv[c], busy |-> isCheckingFarm, gold |-> gold,
     up |-> upgradeRetryCooldown, un |-> unlockRetryCooldown,
     log |-> calls, res |-> expansion, pre |-> expandPre]

Commit(c, G) ==
    /\ inv' = [inv EXCEPT ![c] = G.l]
    /\ isCheckingFarm' = G.busy
    /\ gold' = G.gold
    /\ upgradeRetryCooldown' = G.up
    /\ unlockRetryCooldown' = G.un
    /\ calls' = G.log
    /\ expansion' = G.res
    /\ expandPre' = G.pre

Issue(G, pc, op, ids) == [G EXCEPT !.l.pc = pc, !.log = Append(@, Call(op, ids))]

\* start of a single-item loop "for (const landId of landIds)": the first request
StartLoop(G, op, landIds) ==
    Issue([G EXCEPT !.l.list = landIds, !.l.i = 1, !.l.okIds = <<>>, !.l.failIds = <<>>],
          op, op, <<landIds[1]>>)

\* a cycle end that leaves the flag set
FinishKeepFlag(G) == [G EXCEPT !.l = IdleInv]

\* the finally block of checkFarm
Finish(G) == [G EXCEPT !.l = IdleInv, !.busy = FALSE]

\* fertilize(plantedLands)
StartFertilize(G) ==
    IF Len(G.l.plantedLands) > 0 THEN StartLoop(G, "fert", G.l.plantedLands)
    ELSE Finish(G)

\* plantSeeds returned the number of successes
AfterPlantSeeds(G) ==
    LET planted == Len(G.l.okIds)
    IN  StartFertilize([G EXCEPT !.l.plantedLands =
                            IF planted > 0 THEN Slice(G.l.landsToPlant, planted) ELSE <<>>,
                                 !.l.plantOk = G.l.okIds])

\* planting goes on after a rejected purchase
AfterBuyIgnoreFailure(G, ok) ==
    IF ~ok THEN StartLoop(G, "plant", G.l.landsToPlant)
    ELSE StartLoop([G EXCEPT !.gold = @ - G.l.price * Len(G.l.landsToPlant), !.l.bought = TRUE],
                   "plant", G.l.landsToPlant)

\* buyGoods answered
AfterBuy(G, ok) ==
    IF ~ok THEN Finish(G)
    ELSE StartLoop([G EXCEPT !.gold = @ - G.l.price * Len(G.l.landsToPlant), !.l.bought = TRUE],
                   "plant", G.l.landsToPlant)

\* findBestSeed answered: it threw ("error"), returned null ("none") or a seed
SeedResults ==
    (IF FALSE \in Replies THEN {[kind |-> "error", price |-> 0], [kind |-> "none", price |-> 0]}
     ELSE {})
    \cup {[kind |-> "seed", price |-> p] : p \in IF farm = "planting" THEN PlantingPrices ELSE Prices}

\* inside autoPlantEmptyLands the locals of checkFarm are out of reach, and
\* checkFarm reads none of them again once the call returns
InPlanting(l) ==
    [l EXCEPT !.status = NoStatus, !.done = {}, !.lost = {}, !.harvestedLandIds = <<>>,
              !.clearedByHarvest = {}, !.failedUpgradeIds = <<>>, !.deadLandIds = <<>>,
              !.list = <<>>, !.i = 0, !.okIds = <<>>, !.failIds = <<>>]

\* a purchase for every candidate, whatever the gold
AfterShopNoShrink(G, bestSeed) ==
    IF bestSeed.kind \in {"error", "none"} THEN Finish(G)
    ELSE Issue([G EXCEPT !.l = [InPlanting(@) EXCEPT !.price = bestSeed.price,
                                                     !.needCount = Len(G.l.landsToPlant)]],
               "buy", "buy", G.l.landsToPlant)

AfterShop(G, bestSeed) ==
    IF bestSeed.kind \in {"error", "none"} THEN Finish(G)
    ELSE LET seed == bestSeed.price
             needCount == Len(G.l.landsToPlant)
             totalCost == seed * needCount
             canBuy == G.gold \div seed
         IN  IF totalCost > G.gold /\ canBuy <= 0 THEN Finish(G)
             ELSE LET lands == IF totalCost > G.gold THEN Slice(G.l.landsToPlant, canBuy)
                                ELSE G.l.landsToPlant
                  IN  Issue([G EXCEPT !.l = [InPlanting(@) EXCEPT !.landsToPlant = lands, !.price = seed,
                                                                  !.needCount = needCount]],
                            "buy", "buy", lands)

\* the removed lands left out of the planting
AfterRemoveEmptyOnly(G) ==
    IF Len(G.l.landsToPlant) = 0 THEN Finish(G)
    ELSE Issue(G, "shop", "shop", <<>>)

\* the removed lands planted before the empty ones
AfterRemoveDeadFirst(G) ==
    LET H == [G EXCEPT !.l.landsToPlant = G.l.deadLandIds \o @]
    IN  IF Len(H.l.landsToPlant) = 0 THEN Finish(H)
        ELSE Issue(H, "shop", "shop", <<>>)

\* removePlant answered, or was not needed; success or not, the dead lands are planted
AfterRemove(G) ==
    LET H == [G EXCEPT !.l.landsToPlant = @ \o G.l.deadLandIds]
    IN  IF Len(H.l.landsToPlant) = 0 THEN Finish(H)
        ELSE Issue(H, "shop", "shop", <<>>)

\* the harvested lands removed whatever their upgrade did
AllDeadLandsNoFilter(status, harvestedLandIds, failedUpgradeIds) ==
    status.dead \o harvestedLandIds

AllDeadLands(status, harvestedLandIds, failedUpgradeIds) ==
    status.dead \o SelectSeq(harvestedLandIds, LAMBDA id : id \notin ToSet(failedUpgradeIds))

\* every empty plot seeded, upgrade candidate or not
AllEmptyLandsNoFilter(status) == status.empty

AllEmptyLands(status) ==
    SelectSeq(status.empty, LAMBDA id : id \notin ToSet(status.eligibleForUpgrade))

\* checkFarm after the upgrade step, and the head of autoPlantEmptyLands
StartPlant(G) ==
    LET allDeadLands == AllDeadLands(G.l.status, G.l.harvestedLandIds, G.l.failedUpgradeIds)
        allEmptyLands == AllEmptyLands(G.l.status)
        H == [G EXCEPT !.l.deadLandIds = allDeadLands, !.l.landsToPlant = allEmptyLands]
    IN  IF Len(allDeadLands) = 0 /\ Len(allEmptyLands) = 0 THEN Finish(G)
        ELSE IF Len(allDeadLands) > 0 THEN Issue(H, "remove", "remove", allDeadLands)
        ELSE AfterRemove(H)

\* upgradeLand returned {successIds, failedIds}
AfterUpgrade(G) ==
    LET failedTime == now
    IN  StartPlant([G EXCEPT
            !.up = MapDelete(MapSet(@, G.l.failIds, failedTime), G.l.okIds),
            !.pre.up = MapDelete(@, G.l.failIds),
            !.res.upgrade = [tried |-> G.l.list, ok |-> G.l.okIds, fail |-> G.l.failIds, at |-> failedTime],
            !.l.failedUpgradeIds = G.l.failIds])

StartUpgrade(G) ==
    IF autoUpgradeRedLand /\ Len(G.l.status.eligibleForUpgrade) > 0
    THEN LET toUpgrade == CooldownFilter(G.l.status.eligibleForUpgrade, G.up, now)
         IN  IF Len(toUpgrade) > 0 THEN StartLoop(G, "upgrade", toUpgrade)
             ELSE StartPlant(G)
    ELSE StartPlant(G)

\* failures that leave no cooldown entry
AfterUnlockNoRecord(G) ==
    StartUpgrade([G EXCEPT
        !.un = MapDelete(@, G.l.okIds),
        !.res.unlock = [tried |-> G.l.list, ok |-> G.l.okIds, fail |-> G.l.failIds, at |-> now]])

\* unlockLand returned {successIds, failedIds}
AfterUnlock(G) ==
    LET failedTime == now
    IN  StartUpgrade([G EXCEPT
            !.un = MapDelete(MapSet(@, G.l.failIds, failedTime), G.l.okIds),
            !.pre.un = MapDelete(@, G.l.failIds),
            !.res.unlock = [tried |-> G.l.list, ok |-> G.l.okIds, fail |-> G.l.failIds, at |-> failedTime]])

\* an unlock pass that does not look at CONFIG.autoExpandLand
StartUnlockUnguarded(G) ==
    IF Len(G.l.status.eligibleForUnlock) > 0
    THEN LET toUnlock == CooldownFilter(G.l.status.eligibleForUnlock, G.un, now)
         IN  IF Len(toUnlock) > 0 THEN StartLoop(G, "unlock", toUnlock)
             ELSE StartUpgrade(G)
    ELSE StartUpgrade(G)

StartUnlock(G) ==
    IF autoExpandLand /\ Len(G.l.status.eligibleForUnlock) > 0
    THEN LET toUnlock == CooldownFilter(G.l.status.eligibleForUnlock, G.un, now)
         IN  IF Len(toUnlock) > 0 THEN StartLoop(G, "unlock", toUnlock)
             ELSE StartUpgrade(G)
    ELSE StartUpgrade(G)

\* a harvest that leaves the upgrade cooldown alone
AfterHarvestNoClear(G, ok) ==
    IF ok THEN StartUnlock([G EXCEPT !.l.harvestedLandIds = G.l.status.harvestable,
                                     !.l.clearedByHarvest = ToSet(G.l.status.harvestable) \cap DOMAIN G.up])
    ELSE StartUnlock(G)

\* harvest answered
AfterHarvest(G, ok) ==
    IF ok THEN StartUnlock([G EXCEPT !.l.harvestedLandIds = G.l.status.harvestable,
                                     !.l.clearedByHarvest = ToSet(G.l.status.harvestable) \cap DOMAIN G.up,
                                     !.up = MapDelete(@, G.l.status.harvestable)])
    ELSE StartUnlock(G)

StartHarvest(G) ==
    IF Len(G.l.status.harvestable) > 0
    THEN Issue(G, "harvest", "harvest", G.l.status.harvestable)
    ELSE StartUnlock(G)

\* the batch calls of a status, in the order the code issues them
BatchOps(status) ==
    (IF Len(status.needWeed) > 0 THEN <<Call("weed", status.needWeed)>> ELSE <<>>)
    \o (IF Len(status.needBug) > 0 THEN <<Call("bug", status.needBug)>> ELSE <<>>)
    \o (IF Len(status.needWater) > 0 THEN <<Call("water", status.needWater)>> ELSE <<>>)

\* the batch calls issued and not awaited
StartBatchNoAwait(G) ==
    LET batchOps == BatchOps(G.l.status)
    IN  StartHarvest([G EXCEPT !.log = @ \o batchOps,
                               !.l.pending = {batchOps[k].op : k \in DOMAIN batchOps}])

StartBatch(G) ==
    LET batchOps == BatchOps(G.l.status)
    IN  IF Len(batchOps) > 0
        THEN [G EXCEPT !.l.pc = "batch", !.log = @ \o batchOps,
                       !.l.pending = {batchOps[k].op : k \in DOMAIN batchOps}]
        ELSE StartHarvest(G)

\* getAllLands answered with lands
AfterLands(G, lands) ==
    IF Len(lands) = 0 THEN Finish(G)
    ELSE StartBatch([G EXCEPT !.l.status = AnalyzeLands(lands, GetServerTimeSec)])

\* what follows a single-item loop that ran to its end
AfterLoop(G) ==
    CASE G.l.pc \in {"unlock", "unlockSleep"}   -> AfterUnlock(G)
      [] G.l.pc \in {"upgrade", "upgradeSleep"} -> AfterUpgrade(G)
      [] G.l.pc \in {"plant", "plantSleep"}     -> AfterPlantSeeds(G)
      [] G.l.pc \in {"fert", "fertSleep"}       -> Finish(G)

\* the next iteration of a single-item loop, or what follows the loop
NextItem(G, op) ==
    IF G.l.i < Len(G.l.list)
    THEN Issue([G EXCEPT !.l.i = @ + 1], op, op, <<G.l.list[G.l.i + 1]>>)
    ELSE AfterLoop(G)

\* a single-item request answered: note the result, then sleep if the list
\* has more than one item ("if (landIds.length > 1) await sleep(...)")
ItemReply(G, op, sleepPc, ok) ==
    LET H == IF ok THEN [G EXCEPT !.l.okIds = Append(@, G.l.list[G.l.i])]
             ELSE [G EXCEPT !.l.failIds = Append(@, G.l.list[G.l.i])]
    IN  IF Len(G.l.list) > 1 THEN [H EXCEPT !.l.pc = sleepPc]
        ELSE NextItem(H, op)

\* a fertilize loop that goes on after a failure
FertReplyContinue(G, ok) == ItemReply(G, "fert", "fertSleep", ok)

\* fertilize: a failed request breaks out of the loop
FertReply(G, ok) ==
    IF ok THEN ItemReply(G, "fert", "fertSleep", TRUE)
    ELSE Finish([G EXCEPT !.l.failIds = Append(@, G.l.list[G.l.i])])

\* ----------------------------------------------------------------- actions
\* the guard without the in-flight flag
CheckFarmGuardNoFlag == gid = 0

\* "if (isCheckingFarm || !state.gid) return;"
CheckFarmGuard == isCheckingFarm \/ gid = 0

\* checkFarm called by caller c, up to its first await: what it does to the
\* farm module
CheckFarmCall(c) ==
    IF CheckFarmGuard
    THEN UNCHANGED <<farmVars, expandPre>>
    ELSE /\ inv[c].pc = "idle"
         /\ farm \in {"sched", "retry", "fallow"} \/ cycles < MaxCycles
         /\ cycles' = IF cycles < MaxCycles THEN cycles + 1 ELSE cycles
         /\ Commit(c, [Ctx(c) EXCEPT !.busy = TRUE, !.l.pc = "lands",
                                     !.log = <<Call("lands", <<>>)>>, !.res = NoExpansion])

\* a call of checkFarm by caller c, up to its first await
CheckFarm(c) ==
    /\ UNCHANGED <<now, clockVars, configVars, pushVars, probeVars, schedVars, supVars, xp, expands>>
    /\ CheckFarmCall(c)

\* farmCheckLoop: "await checkFarm()"
LoopCheck == CheckFarm("loop")

\* the timer of onLandsChangedPush: "if (!isCheckingFarm) await checkFarm()"
PushTimer ==
    IF ~isCheckingFarm THEN CheckFarm("push")
    ELSE UNCHANGED vars

\* checkFarm is exported and may be called by any module
DirectCall == CheckFarm("direct")

Resume(c, G) ==
    /\ Commit(c, G)
    /\ UNCHANGED <<now, clockVars, configVars, pushVars, probeVars, schedVars, supVars, xp, expands, cycles>>

\* getAllLands answers: it throws, or returns a snapshot
LandsReply(c) ==
    /\ inv[c].pc = "lands"
    /\ \/ FALSE \in Replies /\ Resume(c, Finish(Ctx(c)))
       \/ \E lands \in World : Resume(c, AfterLands(Ctx(c), lands))

\* Promise.all over calls that reject: the first failure ends the wait
BatchSettledFailFast(G, op, ok) ==
    LET H == [G EXCEPT !.l.pending = @ \ {op},
                       !.l.done = IF ok THEN @ \cup {op} ELSE @,
                       !.l.lost = IF ok THEN @ ELSE @ \cup {op}]
    IN  IF H.l.pending = {} \/ ~ok THEN StartHarvest(H) ELSE H

\* one of weedOut / insecticide / waterLand settles; Promise.all resumes on the last
BatchSettled(G, op, ok) ==
    LET H == [G EXCEPT !.l.pending = @ \ {op},
                       !.l.done = IF ok THEN @ \cup {op} ELSE @,
                       !.l.lost = IF ok THEN @ ELSE @ \cup {op}]
    IN  IF H.l.pending = {} THEN StartHarvest(H) ELSE H

BatchReply(c) ==
    /\ inv[c].pc = "batch"
    /\ \E op \in inv[c].pending, ok \in Replies : Resume(c, BatchSettled(Ctx(c), op, ok))

HarvestReply(c) ==
    /\ inv[c].pc = "harvest"
    /\ \E ok \in Replies : Resume(c, AfterHarvest(Ctx(c), ok))

UnlockReply(c) ==
    /\ inv[c].pc = "unlock"
    /\ \E ok \in Replies : Resume(c, ItemReply(Ctx(c), "unlock", "unlockSleep", ok))

UpgradeReply(c) ==
    /\ inv[c].pc = "upgrade"
    /\ \E ok \in Replies : Resume(c, ItemReply(Ctx(c), "upgrade", "upgradeSleep", ok))

RemoveReply(c) ==
    /\ inv[c].pc = "remove"
    /\ \E ok \in Replies : Resume(c, AfterRemove(Ctx(c)))

ShopReply(c) ==
    /\ inv[c].pc = "shop"
    /\ \E bestSeed \in SeedResults : Resume(c, AfterShop(Ctx(c), bestSeed))

BuyReply(c) ==
    /\ inv[c].pc = "buy"
    /\ \E ok \in Replies : Resume(c, AfterBuy(Ctx(c), ok))

PlantReply(c) ==
    /\ inv[c].pc = "plant"
    /\ \E ok \in Replies : Resume(c, ItemReply(Ctx(c), "plant", "plantSleep", ok))

FertilizeReply(c) ==
    /\ inv[c].pc = "fert"
    /\ \E ok \in Replies : Resume(c, FertReply(Ctx(c), ok))

\* the sleep between two single-item requests ends
UnlockSleepDone(c) == inv[c].pc = "unlockSleep" /\ Resume(c, NextItem(Ctx(c), "unlock"))

UpgradeSleepDone(c) == inv[c].pc = "upgradeSleep" /\ Resume(c, NextItem(Ctx(c), "upgrade"))

PlantSleepDone(c) == inv[c].pc = "plantSleep" /\ Resume(c, NextItem(Ctx(c), "plant"))

FertilizeSleepDone(c) == inv[c].pc = "fertSleep" /\ Resume(c, NextItem(Ctx(c), "fert"))

\* the local clock advances
Tick ==
    /\ now < StartMs + MaxTicks * TickMs
    /\ now' = now + TickMs
    /\ UNCHANGED <<clockVars, configVars, pushVars, probeVars, schedVars, supVars, farmVars, xp, expands, expandPre>>

\* ------------------------------------------------------ expandLandsOnLogin
NoPre == [un |-> EmptyMap, up |-> EmptyMap]

XpStep(x) ==
    /\ xp' = x
    /\ UNCHANGED <<now, clockVars, configVars, pushVars, probeVars, schedVars, supVars, gold, isCheckingFarm, inv, calls, expansion, cycles, expands>>

XpStartLoop(x, pc, landIds) ==
    [x EXCEPT !.pc = pc, !.list = landIds, !.i = 1]

XpStartUpgrade(x) ==
    IF autoUpgradeRedLand /\ Len(x.toUpgrade) > 0
    THEN XpStartLoop(x, "upgrade", x.toUpgrade)
    ELSE IdleXp

XpStartUnlock(x) ==
    IF autoExpandLand /\ Len(x.toUnlock) > 0
    THEN XpStartLoop(x, "unlock", x.toUnlock)
    ELSE XpStartUpgrade(x)

XpNextItem(x) ==
    IF x.i < Len(x.list) THEN [x EXCEPT !.i = @ + 1, !.pc = IF x.pc = "unlockSleep" THEN "unlock"
                                                           ELSE IF x.pc = "upgradeSleep" THEN "upgrade"
                                                           ELSE @]
    ELSE IF x.pc \in {"unlock", "unlockSleep"} THEN XpStartUpgrade(x)
    ELSE IdleXp

\* the result of a request only feeds the log line
XpItemReply(x, sleepPc, ok) ==
    IF Len(x.list) > 1 THEN [x EXCEPT !.pc = sleepPc] ELSE XpNextItem(x)

\* a call of expandLandsOnLogin, up to "await getAllLands()"
ExpandInvoke ==
    /\ xp.pc = "idle"
    /\ expands < MaxExpands
    /\ expands' = expands + 1
    /\ xp' = [IdleXp EXCEPT !.pc = "lands"]
    /\ expandPre' = [un |-> unlockRetryCooldown, up |-> upgradeRetryCooldown]
    /\ UNCHANGED <<now, clockVars, configVars, pushVars, probeVars, schedVars, supVars, farmVars>>

\* the finished call leaves nothing behind
XpDone(x) == IF x.pc = "idle" THEN NoPre ELSE expandPre

\* getAllLands answers expandLandsOnLogin
ExpandLandsReply ==
    /\ xp.pc = "lands"
    /\ \/ /\ XpStep(IdleXp)
          /\ expandPre' = NoPre
          /\ UNCHANGED cooldownVars
       \/ \E lands \in World :
             IF Len(lands) = 0
             THEN XpStep(IdleXp) /\ expandPre' = NoPre /\ UNCHANGED cooldownVars
             ELSE LET status == AnalyzeLands(lands, GetServerTimeSec)
                      x == XpStartUnlock([xp EXCEPT !.toUnlock = status.eligibleForUnlock,
                                                    !.toUpgrade = status.eligibleForUpgrade])
                  IN  /\ XpStep(x)
                      /\ upgradeRetryCooldown' = EmptyMap
                      /\ unlockRetryCooldown' = EmptyMap
                      /\ expandPre' = XpDone(x)

ExpandUnlockReply ==
    /\ xp.pc = "unlock"
    /\ \E ok \in Replies :
          LET x == XpItemReply(xp, "unlockSleep", ok)
          IN  XpStep(x) /\ expandPre' = XpDone(x) /\ UNCHANGED cooldownVars

ExpandUpgradeReply ==
    /\ xp.pc = "upgrade"
    /\ \E ok \in Replies :
          LET x == XpItemReply(xp, "upgradeSleep", ok)
          IN  XpStep(x) /\ expandPre' = XpDone(x) /\ UNCHANGED cooldownVars

ExpandSleepDone ==
    /\ xp.pc \in {"unlockSleep", "upgradeSleep"}
    /\ LET x == XpNextItem(xp)
       IN  XpStep(x) /\ expandPre' = XpDone(x) /\ UNCHANGED cooldownVars

\* ----------------------------------------------------------- specification
Init ==
    /\ now = StartMs
    /\ serverTimeMs = 0
    /\ localTimeAtSync = 0
    /\ gid \in {0, 1}
    /\ gold \in StartGold
    /\ autoExpandLand \in BOOLEAN
    /\ autoUpgradeRedLand \in BOOLEAN
    /\ isCheckingFarm = FALSE
    /\ upgradeRetryCooldown = EmptyMap
    /\ unlockRetryCooldown = EmptyMap
    /\ inv = [c \in Callers |-> IdleInv]
    /\ xp = IdleXp
    /\ calls = <<>>
    /\ expansion = NoExpansion
    /\ cycles = 0
    /\ expands = 0
    /\ expandPre = NoPre
    /\ lastPushTime = 0
    /\ pushTimers = <<>>
    /\ arg = <<>>
    /\ SchedIdle
    /\ SupIdle
    /\ result = <<>>
    /\ farm = "any"

\* the steps of a cycle up to the seed shop
ExpansionStep(c) ==
    \/ LandsReply(c)
    \/ HarvestReply(c)
    \/ UnlockReply(c)
    \/ UnlockSleepDone(c)
    \/ UpgradeReply(c)
    \/ UpgradeSleepDone(c)
    \/ RemoveReply(c)
    \/ ShopReply(c)

CycleStep(c) ==
    \/ ExpansionStep(c)
    \/ BatchReply(c)
    \/ BuyReply(c)
    \/ PlantReply(c)
    \/ PlantSleepDone(c)
    \/ FertilizeReply(c)
    \/ FertilizeSleepDone(c)

ExpandStep ==
    \/ ExpandLandsReply
    \/ ExpandUnlockReply
    \/ ExpandUpgradeReply
    \/ ExpandSleepDone

\* the patrol cycles alone
Next ==
    \/ LoopCheck
    \/ PushTimer
    \/ DirectCall
    \/ \E c \in Callers : CycleStep(c)
    \/ Tick

Spec == Init /\ [][Next]_vars

\* The patrol cycles and expandLandsOnLogin, on a farm whose plots are locked
\* or ripe and upgradable and an account with no gold: nothing needs care,
\* and the replant pipeline ends at the seed shop.
InitExpand ==
    /\ now = StartMs
    /\ serverTimeMs = 0
    /\ localTimeAtSync = 0
    /\ gid = 1
    /\ gold = 0
    /\ autoExpandLand \in BOOLEAN
    /\ autoUpgradeRedLand \in BOOLEAN
    /\ isCheckingFarm = FALSE
    /\ upgradeRetryCooldown = EmptyMap
    /\ unlockRetryCooldown = EmptyMap
    /\ inv = [c \in Callers |-> IdleInv]
    /\ xp = IdleXp
    /\ calls = <<>>
    /\ expansion = NoExpansion
    /\ cycles = 0
    /\ expands = 0
    /\ expandPre = NoPre
    /\ lastPushTime = 0
    /\ pushTimers = <<>>
    /\ arg = <<>>
    /\ SchedIdle
    /\ SupIdle
    /\ result = <<>>
    /\ farm = "expanding"

NextExpand ==
    \/ LoopCheck
    \/ PushTimer
    \/ DirectCall
    \/ \E c \in Callers : ExpansionStep(c)
    \/ Tick
    \/ ExpandInvoke
    \/ ExpandStep

SpecExpand == InitExpand /\ [][NextExpand]_vars

\* The patrol cycles on a few farms, every awaited response and timer
\* eventually arriving.
InitLive ==
    /\ now = StartMs
    /\ serverTimeMs = 0
    /\ localTimeAtSync = 0
    /\ gid = 1
    /\ gold \in StartGold
    /\ autoExpandLand \in BOOLEAN
    /\ autoUpgradeRedLand \in BOOLEAN
    /\ isCheckingFarm = FALSE
    /\ upgradeRetryCooldown = EmptyMap
    /\ unlockRetryCooldown = EmptyMap
    /\ inv = [c \in Callers |-> IdleInv]
    /\ xp = IdleXp
    /\ calls = <<>>
    /\ expansion = NoExpansion
    /\ cycles = 0
    /\ expands = 0
    /\ expandPre = NoPre
    /\ lastPushTime = 0
    /\ pushTimers = <<>>
    /\ arg = <<>>
    /\ SchedIdle
    /\ SupIdle
    /\ result = <<>>
    /\ farm = "mixed"

SpecLive == InitLive /\ [][Next]_vars /\ WF_vars(\E c \in Callers : CycleStep(c))

\* The cooldown maps alone: failures recorded in the first minutes, entries
\* deleted, the filter applied, minute by minute.
Kinds == {"unlock", "upgrade"}

AllIds == [k \in 1..NLands |-> k]

CooldownOf(kind) == IF kind = "unlock" THEN unlockRetryCooldown ELSE upgradeRetryCooldown

SetCooldown(kind, m) ==
    IF kind = "unlock"
    THEN unlockRetryCooldown' = m /\ UNCHANGED upgradeRetryCooldown
    ELSE upgradeRetryCooldown' = m /\ UNCHANGED unlockRetryCooldown

CooldownRest == <<clockVars, configVars, pushVars, probeVars, schedVars, supVars, gold, isCheckingFarm, inv, calls, cycles, xp, expands, expandPre>>

\* "for (const id of failedIds) ...RetryCooldown.set(id, failedTime)"
CooldownRecord ==
    \E kind \in Kinds : \E id \in LandIds :
        /\ now <= StartMs + MaxRecordMinutes * MINUTE_MS
        /\ SetCooldown(kind, MapSet(CooldownOf(kind), <<id>>, now))
        /\ UNCHANGED <<now, expansion, CooldownRest>>

\* "for (const id of successIds) ...RetryCooldown.delete(id)"
CooldownClear ==
    \E kind \in Kinds : \E id \in LandIds :
        /\ SetCooldown(kind, MapDelete(CooldownOf(kind), <<id>>))
        /\ UNCHANGED <<now, expansion, CooldownRest>>

\* "const toUnlock = status.eligibleForUnlock.filter(...)", every id a candidate
CooldownQuery ==
    \E kind \in Kinds :
        /\ expansion' = [NoExpansion EXCEPT ![kind].tried = CooldownFilter(AllIds, CooldownOf(kind), now),
                                            ![kind].at = now]
        /\ UNCHANGED <<now, cooldownVars, CooldownRest>>

MinuteTick ==
    /\ now < StartMs + MaxMinutes * MINUTE_MS
    /\ now' = now + MINUTE_MS
    /\ UNCHANGED <<cooldownVars, expansion, CooldownRest>>

NextCooldown ==
    \/ CooldownRecord
    \/ CooldownClear
    \/ CooldownQuery
    \/ MinuteTick

SpecCooldown == InitLive /\ [][NextCooldown]_vars

\* The replant pipeline alone, on a farm of empty and locked plots, for
\* several amounts of gold and seed prices.
InitPlant ==
    /\ now = StartMs
    /\ serverTimeMs = 0
    /\ localTimeAtSync = 0
    /\ gid = 1
    /\ gold \in PlantingGold
    /\ autoExpandLand = FALSE
    /\ autoUpgradeRedLand = FALSE
    /\ isCheckingFarm = FALSE
    /\ upgradeRetryCooldown = EmptyMap
    /\ unlockRetryCooldown = EmptyMap
    /\ inv = [c \in Callers |-> IdleInv]
    /\ xp = IdleXp
    /\ calls = <<>>
    /\ expansion = NoExpansion
    /\ cycles = 0
    /\ expands = 0
    /\ expandPre = NoPre
    /\ lastPushTime = 0
    /\ pushTimers = <<>>
    /\ arg = <<>>
    /\ SchedIdle
    /\ SupIdle
    /\ result = <<>>
    /\ farm = "planting"

PlantStep(c) ==
    \/ LandsReply(c)
    \/ ShopReply(c)
    \/ BuyReply(c)
    \/ PlantReply(c)
    \/ PlantSleepDone(c)
    \/ FertilizeReply(c)
    \/ FertilizeSleepDone(c)

NextPlant ==
    \/ LoopCheck
    \/ PushTimer
    \/ DirectCall
    \/ \E c \in Callers : PlantStep(c)

SpecPlant == InitPlant /\ [][NextPlant]_vars

\* The patrol cycles on the scenario farm, with enough gold and every
\* request answered.
InitScenario ==
    /\ now = StartMs
    /\ serverTimeMs = 0
    /\ localTimeAtSync = 0
    /\ gid = 1
    /\ gold \in ScenarioGold
    /\ autoExpandLand \in BOOLEAN
    /\ autoUpgradeRedLand \in BOOLEAN
    /\ isCheckingFarm = FALSE
    /\ upgradeRetryCooldown = EmptyMap
    /\ unlockRetryCooldown = EmptyMap
    /\ inv = [c \in Callers |-> IdleInv]
    /\ xp = IdleXp
    /\ calls = <<>>
    /\ expansion = NoExpansion
    /\ cycles = 0
    /\ expands = 0
    /\ expandPre = NoPre
    /\ lastPushTime = 0
    /\ pushTimers = <<>>
    /\ arg = <<>>
    /\ SchedIdle
    /\ SupIdle
    /\ result = <<>>
    /\ farm = "scenario"

ScenarioStep(c) ==
    \/ LandsReply(c)
    \/ BatchReply(c)
    \/ HarvestReply(c)
    \/ RemoveReply(c)
    \/ PlantStep(c)

NextScenario ==
    \/ LoopCheck
    \/ PushTimer
    \/ DirectCall
    \/ \E c \in Callers : ScenarioStep(c)
    \/ Tick

SpecScenario == InitScenario /\ [][NextScenario]_vars

\* ------------------------------------------------------------------ claims
ActiveCycles == {c \in Callers : inv[c].pc # "idle"}

Ops(log) == {log[k].op : k \in DOMAIN log}

CountOp(log, op) == Cardinality({k \in DOMAIN log : log[k].op = op})

IsPrefix(s, t) == Len(s) <= Len(t) /\ SubSeq(t, 1, Len(s)) = s

LastCall == calls[Len(calls)]

\* C1: at most one activation of checkFarm is between acquiring and releasing
\* isCheckingFarm, and the flag is set exactly while there is one; no step
\* taken while the flag is set (in particular no call of checkFarm by the
\* loop, the push timer or another module) acquires it, starts an activation,
\* fetches a snapshot or resets the request log.
C1_SingleCycle ==
    /\ [](Cardinality(ActiveCycles) <= 1 /\ (isCheckingFarm <=> ActiveCycles # {})
          /\ CountOp(calls, "lands") <= 1)
    /\ [][isCheckingFarm =>
            /\ cycles' = cycles
            /\ \A c \in Callers : inv[c].pc = "idle" => inv'[c].pc = "idle"
            /\ IsPrefix(calls, calls')]_vars

\* a second cycle, acquired by the push timer, is in flight while the loop
\* and direct callers are free to call checkFarm
C1_Witness ==
    /\ isCheckingFarm
    /\ cycles = 2
    /\ inv["push"].pc = "harvest"
    /\ inv["loop"].pc = "idle" /\ inv["direct"].pc = "idle"

\* C2: the step that ends an activation of checkFarm clears isCheckingFarm,
\* whatever ended it, and when every awaited response and timer arrives the
\* flag, once set, is eventually clear again.
C2_Released ==
    /\ [][\A c \in Callers : inv[c].pc # "idle" /\ inv'[c].pc = "idle" => ~isCheckingFarm']_vars
    /\ (isCheckingFarm ~> ~isCheckingFarm)

\* a cycle has ended right after its snapshot fetch (the fetch failed, or
\* there was no land or nothing to do) and the flag is clear
C2_Witness ==
    /\ ~isCheckingFarm
    /\ cycles = 1
    /\ calls = <<Call("lands", <<>>)>>

\* the phases of a cycle, in the order of checkFarm
Rank(op) ==
    CASE op = "lands" -> 0
      [] op \in {"weed", "bug", "water"} -> 1
      [] op = "harvest" -> 2
      [] op = "unlock" -> 3
      [] op = "upgrade" -> 4
      [] op = "remove" -> 5
      [] op = "shop" -> 6
      [] op = "buy" -> 7
      [] op = "plant" -> 8
      [] op = "fert" -> 9

\* C3: the requests of a cycle are issued in the order maintenance, harvest,
\* unlock, upgrade, removal, (catalog,) purchase, plant, amend, and a request
\* is outstanding only while it is of the phase issued last: a maintenance
\* call is pending only while no later call was issued, and any other
\* outstanding request is the last one issued.
C3_PhaseOrder ==
    /\ \A j \in DOMAIN calls : \A k \in DOMAIN calls :
          j < k => Rank(calls[j].op) <= Rank(calls[k].op)
    /\ \A c \in Callers :
          /\ inv[c].pending # {} => inv[c].pc = "batch" /\ Rank(LastCall.op) = 1
          /\ inv[c].pc \in {"lands", "harvest", "unlock", "upgrade", "remove", "shop", "buy", "plant", "fert"}
                => LastCall.op = inv[c].pc

\* a cycle that went through maintenance, harvest, upgrade, removal, purchase
\* and planting is applying fertilizer
C3_Witness ==
    /\ \E c \in Callers : inv[c].pc = "fert"
    /\ {"water", "harvest", "upgrade", "remove", "shop", "buy", "plant", "fert"} \subseteq Ops(calls)

MaintenanceOps == {"weed", "bug", "water"}

NeedOf(status, op) ==
    CASE op = "weed" -> status.needWeed
      [] op = "bug" -> status.needBug
      [] op = "water" -> status.needWater

\* C4: each of the weed, pest and water calls is issued at most once in a
\* cycle, exactly when its id set is not empty and with that set; a call
\* that settles, with success or failure, leaves the other pending calls
\* pending and issues nothing; the wait ends only with the last pending call,
\* and the harvest is issued only when none is pending.
C4_Maintenance ==
    /\ [](\A c \in Callers :
            /\ \A op \in MaintenanceOps : CountOp(calls, op) <= 1
            /\ inv[c].pc \in {"batch", "harvest"} =>
                 /\ \A op \in MaintenanceOps :
                       /\ op \in Ops(calls) <=> Len(NeedOf(inv[c].status, op)) > 0
                       /\ \A k \in DOMAIN calls : calls[k].op = op => calls[k].ids = NeedOf(inv[c].status, op)
                 /\ inv[c].pending \cup inv[c].done \cup inv[c].lost = Ops(calls) \cap MaintenanceOps
            /\ "harvest" \in Ops(calls) => inv[c].pending = {})
    /\ [][\A c \in Callers : inv[c].pc = "batch" /\ inv'[c] # inv[c] =>
            /\ inv'[c].pc = "batch" =>
                  /\ calls' = calls
                  /\ inv'[c].pending \subseteq inv[c].pending
                  /\ Cardinality(inv[c].pending \ inv'[c].pending) = 1
            /\ inv'[c].pc # "batch" => Cardinality(inv[c].pending) = 1]_vars

\* the weed call failed, the pest and water calls succeeded, and the harvest is under way
C4_Witness ==
    \E c \in Callers :
        /\ inv[c].pc = "harvest"
        /\ inv[c].lost = {"weed"}
        /\ inv[c].done = {"bug", "water"}

\* C5: the step in which the harvest call succeeds makes the harvested ids
\* the harvested list of the cycle and leaves no upgrade cooldown entry for
\* any of them, all other entries and the unlock cooldown map being as
\* before; the step in which it fails leaves both maps as they are and the
\* harvested list empty.
C5_HarvestClears ==
    [][\A c \in Callers : inv[c].pc = "harvest" /\ inv'[c].pc # "harvest" =>
          /\ unlockRetryCooldown' = unlockRetryCooldown
          /\ \/ /\ upgradeRetryCooldown' = upgradeRetryCooldown
                /\ inv'[c].pc # "idle" => inv'[c].harvestedLandIds = <<>>
                /\ "remove" \in Ops(calls') => LastCall'.ids = inv[c].status.dead
             \/ /\ inv'[c].harvestedLandIds = inv[c].status.harvestable
                /\ upgradeRetryCooldown' = MapDelete(upgradeRetryCooldown, inv[c].status.harvestable)
                /\ DOMAIN upgradeRetryCooldown' \cap ToSet(inv[c].status.harvestable) = {}]_vars

\* a harvest has just deleted an upgrade cooldown entry while the unlock
\* cooldown map holds an entry
C5_Witness ==
    \E c \in Callers :
        /\ inv[c].clearedByHarvest # {}
        /\ DOMAIN unlockRetryCooldown # {}

\* C10 as claimed: the removal request carries (dead + harvested) minus the
\* plots whose upgrade failed in this cycle.
C10_RemovalMinusFailed ==
    \A c \in Callers : inv[c].pc = "remove" =>
        ToSet(LastCall.ids) =
            (ToSet(inv[c].status.dead) \cup ToSet(inv[c].harvestedLandIds))
                \ ToSet(inv[c].failedUpgradeIds)

\* C10, amended: the removal request carries the dead plots of the snapshot
\* and the plots harvested in this cycle whose upgrade did not fail in it; a
\* dead plot is removed even when its upgrade failed.
C10_Removal ==
    \A c \in Callers : inv[c].pc = "remove" =>
        /\ LastCall.op = "remove"
        /\ ToSet(LastCall.ids) =
              ToSet(inv[c].status.dead)
                \cup (ToSet(inv[c].harvestedLandIds) \ ToSet(inv[c].failedUpgradeIds))
        /\ Len(LastCall.ids) = Cardinality(ToSet(LastCall.ids))

\* a dead plot and a harvested plot both failed their upgrade: the dead one
\* is removed, the harvested one is not
C10_Witness ==
    \E c \in Callers :
        /\ inv[c].pc = "remove"
        /\ inv[c].status.dead = <<1>>
        /\ inv[c].harvestedLandIds = <<2>>
        /\ inv[c].failedUpgradeIds = <<1, 2>>
        /\ LastCall.ids = <<1>>

\* C6: the ids the cooldown filter lets through at time now are exactly
\* those with no recorded failure or whose recorded failure is at least 10
\* minutes old: an id whose failure is 9 minutes old is held back, one whose
\* failure is exactly 10 or 11 minutes old passes, and an id whose entry was
\* just deleted passes whatever time has elapsed.
C6_Eligibility ==
    [][/\ \A kind \in Kinds :
            expansion'[kind] # expansion[kind] /\ expansion'[kind].at = now =>
              LET m == CooldownOf(kind)
                  passed == ToSet(expansion'[kind].tried)
              IN  \A id \in LandIds :
                    /\ id \in passed <=> (id \notin DOMAIN m \/ now - m[id] >= 10 * 60 * 1000)
                    /\ id \in DOMAIN m /\ now - m[id] = 9 * 60 * 1000 => id \notin passed
                    /\ id \in DOMAIN m /\ now - m[id] = 10 * 60 * 1000 => id \in passed
                    /\ id \in DOMAIN m /\ now - m[id] = 11 * 60 * 1000 => id \in passed
       /\ \A id \in LandIds :
            /\ id \in DOMAIN unlockRetryCooldown /\ id \notin DOMAIN unlockRetryCooldown'
                  => CooldownPasses(unlockRetryCooldown', id, now')
            /\ id \in DOMAIN upgradeRetryCooldown /\ id \notin DOMAIN upgradeRetryCooldown'
                  => CooldownPasses(upgradeRetryCooldown', id, now')]_vars

\* plot 1 failed its upgrade exactly 10 minutes ago and passes, plot 2
\* failed 9 minutes ago and is held back
C6_Witness ==
    /\ 1 \in DOMAIN upgradeRetryCooldown /\ now - upgradeRetryCooldown[1] = 10 * MINUTE_MS
    /\ 2 \in DOMAIN upgradeRetryCooldown /\ now - upgradeRetryCooldown[2] = 9 * MINUTE_MS
    /\ expansion["upgrade"].tried = <<1>>
    /\ expansion["upgrade"].at = now

\* C7: while a cycle has an unlock (upgrade) request for a plot outstanding,
\* the unlock (upgrade) feature is enabled, the plot is an unlock (upgrade)
\* candidate of the cycle's snapshot, and the unlock (upgrade) cooldown map
\* holds no failure for it less than 10 minutes old.
C7_GatedRequests ==
    \A c \in Callers :
        /\ inv[c].pc \in {"unlock", "unlockSleep"} =>
              LET id == inv[c].list[inv[c].i]
              IN  /\ autoExpandLand
                  /\ LastCall = Call("unlock", <<id>>)
                  /\ id \in ToSet(inv[c].status.eligibleForUnlock)
                  /\ id \in DOMAIN unlockRetryCooldown
                        => now - unlockRetryCooldown[id] >= 10 * MINUTE_MS
        /\ inv[c].pc \in {"upgrade", "upgradeSleep"} =>
              LET id == inv[c].list[inv[c].i]
              IN  /\ autoUpgradeRedLand
                  /\ LastCall = Call("upgrade", <<id>>)
                  /\ id \in ToSet(inv[c].status.eligibleForUpgrade)
                  /\ id \in DOMAIN upgradeRetryCooldown
                        => now - upgradeRetryCooldown[id] >= 10 * MINUTE_MS

\* both plots are unlock candidates, plot 1 failed less than 10 minutes ago,
\* and the cycle asks for plot 2 only
C7_Witness ==
    \E c \in Callers :
        /\ inv[c].pc = "unlock"
        /\ inv[c].status.eligibleForUnlock = <<1, 2>>
        /\ inv[c].list = <<2>>
        /\ 1 \in DOMAIN unlockRetryCooldown
        /\ now - unlockRetryCooldown[1] < 10 * MINUTE_MS

RequestsOf(log, kind) == SelectSeq(log, LAMBDA e : e.op = kind)

\* C8: the step that ends the unlock (upgrade) pass of a cycle has issued
\* one request per attempted id, each with that single id and in order,
\* whatever the earlier requests answered; it leaves every failed id with an
\* entry stamped with the time of that step, every succeeded id without an
\* entry, and the entries of the ids not attempted as they were.
C8_PassResult ==
    [][\A kind \in Kinds :
         expansion'[kind] # expansion[kind] /\ expansion'[kind].tried # <<>> =>
           LET r == expansion'[kind]
               m == CooldownOf(kind)
               n == CooldownOf(kind)'
           IN  /\ r.at = now
               /\ RequestsOf(calls', kind) = [k \in 1..Len(r.tried) |-> Call(kind, <<r.tried[k]>>)]
               /\ ToSet(r.ok) \cup ToSet(r.fail) = ToSet(r.tried)
               /\ ToSet(r.ok) \cap ToSet(r.fail) = {}
               /\ \A id \in ToSet(r.fail) : id \in DOMAIN n /\ n[id] = now
               /\ \A id \in ToSet(r.ok) : id \notin DOMAIN n
               /\ \A id \in LandIds \ ToSet(r.tried) :
                     /\ id \in DOMAIN n <=> id \in DOMAIN m
                     /\ id \in DOMAIN m => n[id] = m[id]]_vars

\* the unlock of plot 1 failed, the unlock of plot 2 after it succeeded,
\* and only plot 1 has an entry, stamped with the time the pass ended
C8_Witness ==
    /\ expansion.unlock.tried = <<1, 2>>
    /\ expansion.unlock.fail = <<1>>
    /\ expansion.unlock.ok = <<2>>
    /\ expansion.unlock.at > StartMs
    /\ DOMAIN unlockRetryCooldown = {1}
    /\ unlockRetryCooldown[1] = expansion.unlock.at

\* C9 as claimed: the step that ends a call of expandLandsOnLogin leaves no
\* entry recorded before the call in either cooldown map, also when the
\* snapshot fetch fails or returns no plot.
C9_ExpandClears ==
    [][xp.pc # "idle" /\ xp'.pc = "idle" =>
          /\ DOMAIN expandPre.un \cap DOMAIN unlockRetryCooldown' = {}
          /\ DOMAIN expandPre.up \cap DOMAIN upgradeRetryCooldown' = {}]_vars

\* expandLandsOnLogin was called while an unlock failure stood recorded, and
\* awaits its snapshot
C9_Witness ==
    /\ xp.pc = "lands"
    /\ DOMAIN expandPre.un # {}
    /\ expandPre.un = unlockRetryCooldown

\* the plots a cycle offers for direct seeding: emptyLandIds of autoPlantEmptyLands
Offered(l) ==
    IF l.pc = "remove" THEN l.landsToPlant
    ELSE SubSeq(l.landsToPlant, 1, Len(l.landsToPlant) - Len(l.deadLandIds))

BeforePlanting == {"batch", "harvest", "unlock", "unlockSleep", "upgrade", "upgradeSleep"}

\* C11: the plots a cycle offers for direct seeding are the empty plots of
\* its snapshot that are not upgrade candidates of that snapshot, in snapshot
\* order, whether or not an upgrade was attempted, succeeded, failed or is
\* enabled; and a cycle that has such a plot does not end before the replant
\* pipeline is entered.
C11_DirectSeeding ==
    /\ [](\A c \in Callers : inv[c].pc \in {"remove", "shop"} =>
            /\ ToSet(Offered(inv[c])) =
                  ToSet(inv[c].status.empty) \ ToSet(inv[c].status.eligibleForUpgrade)
            /\ \A j \in DOMAIN Offered(inv[c]) : \A k \in DOMAIN Offered(inv[c]) :
                  j < k => Offered(inv[c])[j] < Offered(inv[c])[k])
    /\ [][\A c \in Callers :
            inv[c].pc \in BeforePlanting /\ inv'[c].pc = "idle" =>
               ToSet(inv[c].status.empty) \subseteq ToSet(inv[c].status.eligibleForUpgrade)]_vars

\* both plots are empty, plot 2 is an upgrade candidate and upgrades are
\* disabled: plot 1 alone goes to the seed shop
C11_Witness ==
    \E c \in Callers :
        /\ inv[c].pc = "shop"
        /\ ~autoUpgradeRedLand
        /\ inv[c].status.empty = <<1, 2>>
        /\ inv[c].status.eligibleForUpgrade = <<2>>
        /\ inv[c].landsToPlant = <<1>>

Min(a, b) == IF a < b THEN a ELSE b

\* C12: the step that leaves the seed shop with n candidates, g gold and a
\* seed of price p > 0 either ends the cycle or issues one purchase of
\* min(n, g div p) >= 1 units, for the first that many candidates, whose cost
\* does not exceed g; no cycle issues two purchases, and the plant requests
\* of a cycle are for the purchased candidates, in order.
C12_Affordable ==
    /\ [][\A c \in Callers : inv[c].pc = "shop" /\ inv'[c] # inv[c] =>
            \/ inv'[c].pc = "idle" /\ calls' = calls
            \/ LET n == Len(inv[c].landsToPlant)
                   p == inv'[c].price
                   k == Len(LastCall'.ids)
               IN  /\ inv'[c].pc = "buy"
                   /\ calls' = Append(calls, Call("buy", SubSeq(inv[c].landsToPlant, 1, k)))
                   /\ p > 0
                   /\ k = Min(n, gold \div p)
                   /\ k >= 1
                   /\ k * p <= gold
                   /\ inv'[c].landsToPlant = LastCall'.ids
                   /\ gold' = gold]_vars
    /\ [](LET buys == RequestsOf(calls, "buy")
              plants == RequestsOf(calls, "plant")
          IN  /\ Len(buys) <= 1
              /\ Len(plants) > 0 => Len(buys) = 1 /\ Len(plants) <= Len(buys[1].ids)
              /\ \A k \in DOMAIN plants : plants[k].ids = <<buys[1].ids[k]>>)

\* three candidates, a seed of 100 and 250 gold: two units are purchased
C12_Witness ==
    \E c \in Callers :
        /\ inv[c].pc = "buy"
        /\ inv[c].needCount = 3
        /\ inv[c].price = 100
        /\ gold = 250
        /\ LastCall = Call("buy", <<1, 2>>)

Planting == {"plant", "plantSleep", "fert", "fertSleep"}

\* C13: a cycle that ends at the seed shop or at the purchase (the catalog
\* fetch failed, no seed was found or affordable, or the purchase was
\* rejected) ends in that step with the gold and the request log as they
\* were and the flag released; a plant or amend request is outstanding only
\* in an activation whose purchase was answered.
C13_NoSeedNoPlanting ==
    /\ [][\A c \in Callers :
            /\ inv[c].pc \in {"shop", "buy"} /\ inv'[c].pc = "idle" =>
                  gold' = gold /\ calls' = calls /\ ~isCheckingFarm'
            /\ inv[c].pc = "shop" /\ inv'[c] # inv[c] => inv'[c].pc \in {"idle", "buy"} /\ gold' = gold
            /\ inv[c].pc = "buy" /\ inv'[c] # inv[c] =>
                  inv'[c].pc = "idle" \/ (inv'[c].pc = "plant" /\ inv'[c].bought)]_vars
    /\ [](\A c \in Callers :
            /\ inv[c].pc \in Planting => inv[c].bought
            /\ inv[c].pc \notin Planting \cup {"idle"} => Ops(calls) \cap {"plant", "fert"} = {})

\* a cycle has ended on a rejected purchase: the gold is what it was
C13_Witness ==
    /\ ~isCheckingFarm
    /\ cycles = 1
    /\ \A c \in Callers : inv[c].pc = "idle"
    /\ LastCall.op = "buy"
    /\ gold = 250

\* C14 as claimed: an amend request is outstanding for a plot only if the
\* plant request for that plot succeeded in this cycle.
C14_AmendOnlyPlanted ==
    \A c \in Callers : inv[c].pc = "fert" =>
        /\ LastCall = Call("fert", <<inv[c].list[inv[c].i]>>)
        /\ inv[c].list[inv[c].i] \in ToSet(inv[c].plantOk)

\* the plant request of plot 1 was rejected, that of plot 2 answered, and the
\* amend request is for plot 1
C14_Witness ==
    \E c \in Callers :
        /\ inv[c].pc = "fert"
        /\ inv[c].landsToPlant = <<1, 2>>
        /\ inv[c].plantOk = <<2>>
        /\ LastCall = Call("fert", <<1>>)

\* the requests of the first n items of a single-item loop
Singles(op, list, n) == [k \in 1..n |-> Call(op, <<list[k]>>)]

InLoop(l, op) == l.pc \in {op, op \o "Sleep"}

\* C15: while an unlock, upgrade or plant loop runs, one request has been
\* issued for each of the first i ids of its list, and no other, however
\* the earlier ones ended, and the loop is left only after the last id; while
\* the amend loop runs no amend request of it has failed, so none is issued
\* after a failed one.
C15_Loops ==
    /\ [](\A c \in Callers : \A op \in {"unlock", "upgrade", "plant", "fert"} :
            InLoop(inv[c], op) =>
               /\ inv[c].i \in 1..Len(inv[c].list)
               /\ Cardinality(ToSet(inv[c].list)) = Len(inv[c].list)
               /\ RequestsOf(calls, op) = Singles(op, inv[c].list, inv[c].i)
               /\ Len(inv[c].okIds) + Len(inv[c].failIds) =
                     IF inv[c].pc = op THEN inv[c].i - 1 ELSE inv[c].i
               /\ op = "fert" => inv[c].failIds = <<>>)
    /\ [][\A c \in Callers : \A op \in {"unlock", "upgrade", "plant"} :
            InLoop(inv[c], op) /\ ~InLoop(inv'[c], op) => inv[c].i = Len(inv[c].list)]_vars

\* the plant request of the first plot was rejected and the one of the
\* second plot is outstanding
C15_Witness ==
    \E c \in Callers :
        /\ inv[c].pc = "plant"
        /\ inv[c].i = 2
        /\ inv[c].failIds = <<inv[c].list[1]>>

\* the calls of a cycle that change the farm, without the snapshot and the
\* catalog fetches
FarmCalls == SelectSeq(calls, LAMBDA e : e.op \notin {"lands", "shop"})

\* the calls C16 claims, for each order of the two plant requests and of the
\* two amend requests
ClaimedCalls ==
    {<<Call("water", <<4>>), Call("harvest", <<2>>), Call("remove", <<1>>), Call("buy", ids),
       Call("plant", <<a>>), Call("plant", <<b>>), Call("fert", <<x>>), Call("fert", <<y>>)>> :
        ids \in {<<1, 3>>, <<3, 1>>}, a \in {1, 3}, b \in {1, 3}, x \in {1, 3}, y \in {1, 3}}

\* C16 as claimed: on the scenario farm a cycle issues water([4]),
\* harvest([2]), removeOccupant([1]), a purchase of 2 units, plantOne on
\* plots 1 and 3 and amendOne on plots 1 and 3.
C16_ScenarioAsClaimed == \E seq \in ClaimedCalls : IsPrefix(FarmCalls, seq)

ScenarioCalls ==
    <<Call("lands", <<>>), Call("water", <<4>>), Call("harvest", <<2>>),
      Call("remove", <<1, 2>>), Call("shop", <<>>), Call("buy", <<3, 1, 2>>),
      Call("plant", <<3>>), Call("plant", <<1>>), Call("plant", <<2>>),
      Call("fert", <<3>>), Call("fert", <<1>>), Call("fert", <<2>>)>>

\* C16, amended: on the scenario farm a cycle issues, in this order, the
\* snapshot fetch, water([4]), harvest([2]), removeOccupant([1, 2]), the
\* catalog fetch, a purchase of 3 units, plantOne on plots 3, 1, 2 and amendOne
\* on plots 3, 1, 2, and nothing else; the harvested plot is removed and
\* replanted with the dead one.
C16_Scenario ==
    /\ IsPrefix(calls, ScenarioCalls)
    /\ cycles > 0 /\ ~isCheckingFarm => calls = ScenarioCalls
    /\ \A c \in Callers : inv[c].pc \in {"plant", "fert"} => inv[c].bought

\* a cycle on the scenario farm has ended
C16_Witness ==
    /\ cycles = 1
    /\ ~isCheckingFarm
    /\ calls = ScenarioCalls
    /\ gold = 300 * (MaxCycles - 1)

\* ----------------------------------------------- getCurrentPhase, alone
\* the module with nothing running
Idle ==
    /\ now = StartMs
    /\ serverTimeMs = 0
    /\ localTimeAtSync = 0
    /\ gid = 1
    /\ gold = 0
    /\ autoExpandLand = FALSE
    /\ autoUpgradeRedLand = FALSE
    /\ isCheckingFarm = FALSE
    /\ upgradeRetryCooldown = EmptyMap
    /\ unlockRetryCooldown = EmptyMap
    /\ inv = [c \in Callers |-> IdleInv]
    /\ xp = IdleXp
    /\ calls = <<>>
    /\ expansion = NoExpansion
    /\ cycles = 0
    /\ expands = 0
    /\ expandPre = NoPre
    /\ lastPushTime = 0
    /\ pushTimers = <<>>
    /\ SchedIdle
    /\ SupIdle

MaxPhases == 3
\* begin times: unset (negative or 0) and seconds 1 to 3
BeginTimes == (0 - 1)..3
\* the server time in seconds when the function is called
NowSecs == 1..3

PhaseKindAt(i) ==
    IF i = 1 THEN PlantPhase.SEED ELSE IF i = 2 THEN PlantPhase.GROWING ELSE PlantPhase.MATURE

\* phase lists of up to MaxPhases phases, sorted or not; the phase at
\* position i carries its position as dry_time, so that phases with equal
\* begin times stay apart
PhaseLists ==
    UNION {{[i \in 1..n |-> Phase(PhaseKindAt(i), b[i], i, 0, 0)] : b \in [1..n -> BeginTimes]} :
             n \in 0..MaxPhases}

InitPhase ==
    /\ Idle
    /\ farm = "bare"
    /\ arg \in PhaseLists \X NowSecs
    /\ result = <<>>

\* one call getCurrentPhase(phases) at server time nowSec; the value returned
\* is kept as <<value>>
ResolvePhase ==
    /\ result = <<>>
    /\ result' = <<GetCurrentPhase(arg[1], arg[2])>>
    /\ UNCHANGED <<now, clockVars, configVars, pushVars, schedVars, supVars, arg, farmVars, xp, expands, expandPre>>

NextPhase == ResolvePhase

SpecPhase == InitPhase /\ [][NextPhase]_vars

\* the begin time in seconds: 0 when unset
StartOf(p) == IF p.begin_time <= 0 THEN 0 ELSE p.begin_time

SortedByStart(phases) ==
    \A i, j \in DOMAIN phases : i < j => phases[i].begin_time <= phases[j].begin_time

\* the positions whose start is in (0, nowSec]
Begun(phases, nowSec) == {i \in DOMAIN phases : StartOf(phases[i]) > 0 /\ StartOf(phases[i]) <= nowSec}

\* C17: getCurrentPhase returns null for the empty list; for a non-empty
\* list sorted by begin time it returns a phase whose start is the greatest
\* of those in (0, now], which is the only such phase unless two phases share
\* that start (then the later one in the list), and the first phase of the
\* list when no start is in (0, now].
C17_CurrentPhase ==
    result # <<>> =>
        LET phases == arg[1]
            nowSec == arg[2]
            begun  == Begun(phases, nowSec)
            best   == {i \in begun : \A j \in begun : StartOf(phases[j]) <= StartOf(phases[i])}
        IN  /\ Len(phases) = 0 => result[1] = <<>>
            /\ Len(phases) > 0 /\ SortedByStart(phases) =>
                  /\ Len(result[1]) = 1
                  /\ begun = {} => result[1][1] = phases[1]
                  /\ begun # {} =>
                        /\ \E i \in best : result[1][1] = phases[i]
                        /\ \A i \in best : \A j \in best : i < j => result[1][1] # phases[i]
                        /\ Cardinality(best) = 1 => result[1][1] = phases[CHOOSE i \in best : TRUE]

\* three sorted phases, the last one still in the future: the second is current
C17_Witness ==
    /\ result # <<>>
    /\ Len(arg[1]) = 3
    /\ arg[2] = 2
    /\ arg[1][1].begin_time = 1
    /\ arg[1][2].begin_time = 2
    /\ arg[1][3].begin_time = 3
    /\ result[1] = <<arg[1][2]>>

\* -------------------------------------------------- analyzeLands, alone
\* timers of a phase: unset, or due at second 2 or 3
DeadlineTimes == {0, 2, 3}

\* the plants a plot is classified on: none, one without phases, the kinds of
\* the patrol farms, one whose phase changes at second 3, one that matures at
\* second 3 and one whose only phase has not begun
ClassifyPlants ==
    {PlantOf(k) : k \in {"none", "dead", "mature", "needy", "dry", "thirsty"}}
    \cup {Plant(<<>>, 0),
          Plant(<<Phase(PlantPhase.GROWING, 1, 1, 0, 0), Phase(PlantPhase.GROWING, 3, 0, 0, 0)>>, 0),
          Plant(<<Phase(PlantPhase.GROWING, 1, 0, 0, 0), Phase(PlantPhase.MATURE, 3, 0, 0, 0)>>, 0),
          Plant(<<Phase(PlantPhase.SEED, 3, 0, 0, 0)>>, 0)}

\* growing plants with every combination of the two signals of each need
NeedPlants ==
    {<<[phases |-> <<Phase(PlantPhase.GROWING, 1, d, w, b)>>, dry_num |-> dn,
        weed_owners |-> wo, insect_owners |-> io]>> :
        d \in DeadlineTimes, w \in DeadlineTimes, b \in DeadlineTimes,
        dn \in 0..1, wo \in 0..1, io \in 0..1}

\* dead plants, and plants ripe from second 2 on, with every combination of
\* the signals of the three needs
ResiduePlants ==
    {<<[phases |-> ph, dry_num |-> dn, weed_owners |-> wo, insect_owners |-> io]>> :
        ph \in UNION {{<<Phase(PlantPhase.DEAD, 1, d, w, b)>>,
                       <<Phase(PlantPhase.GROWING, 1, d, w, b), Phase(PlantPhase.MATURE, 2, d, w, b)>>} :
                      d \in DeadlineTimes, w \in DeadlineTimes, b \in DeadlineTimes},
        dn \in 0..1, wo \in 0..1, io \in 0..1}

LandWith(id, plant) ==
    {[id |-> id, unlocked |-> u, could_unlock |-> cu, could_upgrade |-> cg, plant |-> plant] :
        u \in BOOLEAN, cu \in BOOLEAN, cg \in BOOLEAN}

ClassifyLands(id) == UNION {LandWith(id, p) : p \in ClassifyPlants}

ClassifySnapshots ==
    {<<>>}
    \cup {<<a, b>> : a \in ClassifyLands(1), b \in ClassifyLands(2)}
    \cup {<<[id |-> 1, unlocked |-> TRUE, could_unlock |-> FALSE, could_upgrade |-> FALSE,
             plant |-> p]>> : p \in NeedPlants \cup ResiduePlants}

InitClassify ==
    /\ Idle
    /\ farm = "bare"
    /\ arg \in ClassifySnapshots \X NowSecs
    /\ result = <<>>

\* one call analyzeLands(lands) at server time nowSec
Classify ==
    /\ result = <<>>
    /\ result' = <<AnalyzeLands(arg[1], arg[2])>>
    /\ UNCHANGED <<now, clockVars, configVars, pushVars, schedVars, supVars, arg, farmVars, xp, expands, expandPre>>

NextClassify == Classify

SpecClassify == InitClassify /\ [][NextClassify]_vars

\* how often id occurs in a list
Occurs(list, id) == Cardinality({k \in DOMAIN list : list[k] = id})

PrimaryCount(st, id) ==
    Occurs(st.dead, id) + Occurs(st.harvestable, id) + Occurs(st.empty, id) + Occurs(st.growing, id)

\* C18: analyzeLands puts every unlocked land in exactly one of dead,
\* harvestable, empty and growing; a locked land is in none of them, in no
\* need list and not among the upgrade candidates, and is among the unlock
\* candidates exactly if could_unlock is set; the need lists hold growing
\* lands only.
C18_Classification ==
    result # <<>> =>
        LET lands == arg[1]
            st    == result[1]
        IN  /\ \A i \in DOMAIN lands :
                 LET land == lands[i]
                 IN  /\ land.unlocked => PrimaryCount(st, land.id) = 1
                     /\ ~land.unlocked =>
                           /\ PrimaryCount(st, land.id) = 0
                           /\ land.id \notin ToSet(st.needWater) \cup ToSet(st.needWeed)
                                               \cup ToSet(st.needBug) \cup ToSet(st.eligibleForUpgrade)
                           /\ land.id \in ToSet(st.eligibleForUnlock) <=> land.could_unlock
            /\ ToSet(st.needWater) \cup ToSet(st.needWeed) \cup ToSet(st.needBug) \subseteq ToSet(st.growing)
            /\ ToSet(st.eligibleForUnlock) \cup ToSet(st.eligibleForUpgrade) \cup ToSet(st.growing)
                  \cup ToSet(st.dead) \cup ToSet(st.harvestable) \cup ToSet(st.empty)
                  \subseteq ToSet(Ids(lands))

\* a locked land that reports could_unlock and could_upgrade beside a growing
\* land with all three needs
C18_Witness ==
    /\ result # <<>>
    /\ Len(arg[1]) = 2
    /\ ~arg[1][1].unlocked /\ arg[1][1].could_unlock /\ arg[1][1].could_upgrade
    /\ arg[1][1].plant = PlantOf("needy")
    /\ arg[1][2].unlocked /\ arg[1][2].plant = PlantOf("needy")
    /\ result[1].eligibleForUnlock = <<1>>
    /\ result[1].growing = <<2>>
    /\ result[1].needWater = <<2>>

\* a timer of the current phase is set and has passed
Passed(t, nowSec) == t > 0 /\ t <= nowSec

\* C19: a growing land is in needWater exactly if dry_num > 0 or the dry_time
\* of its current phase is set and not after now, and then once; needWeed and
\* needBug follow the same rule with weed_owners and weeds_time, insect_owners
\* and insect_time.
C19_Needs ==
    result # <<>> =>
        LET lands  == arg[1]
            nowSec == arg[2]
            st     == result[1]
        IN  \A i \in DOMAIN lands :
                lands[i].id \in ToSet(st.growing) =>
                    LET land  == lands[i]
                        plant == land.plant[1]
                        cur   == CurrentPhaseOf(land, nowSec)[1]
                    IN  /\ Occurs(st.needWater, land.id) =
                              IF plant.dry_num > 0 \/ Passed(cur.dry_time, nowSec) THEN 1 ELSE 0
                        /\ Occurs(st.needWeed, land.id) =
                              IF plant.weed_owners > 0 \/ Passed(cur.weeds_time, nowSec) THEN 1 ELSE 0
                        /\ Occurs(st.needBug, land.id) =
                              IF plant.insect_owners > 0 \/ Passed(cur.insect_time, nowSec) THEN 1 ELSE 0

\* dry_num > 0 and the dry timer has passed: the land is in needWater once;
\* its weed timer is still ahead, so it is not in needWeed
C19_Witness ==
    /\ result # <<>>
    /\ Len(arg[1]) = 1
    /\ arg[2] = 2
    /\ arg[1][1].plant[1].dry_num = 1
    /\ arg[1][1].plant[1].phases[1].dry_time = 2
    /\ arg[1][1].plant[1].weed_owners = 0
    /\ arg[1][1].plant[1].phases[1].weeds_time = 3
    /\ result[1].needWater = <<1>>
    /\ result[1].needWeed = <<>>

\* ------------------------------------------------- onLandsChangedPush
MaxPushes == 3
MaxPushTicks == 10
\* "if (now - lastPushTime < 500) return"
DebounceMs == 500
\* "setTimeout(..., 100)"
PushDelayMs == 100

\* arg counts the landsChanged events delivered, result tells what the last
\* one did
InitPush ==
    /\ Idle
    /\ farm = "bare"
    /\ arg = <<0>>
    /\ result = <<>>

\* the handler returns without scheduling: the in-flight test only
PushIgnoredNoDebounce == isCheckingFarm

\* the two early returns of onLandsChangedPush
PushIgnored == isCheckingFarm \/ now - lastPushTime < DebounceMs

\* a landsChanged event arrives
OnLandsChangedPush ==
    /\ arg[1] < MaxPushes
    /\ arg' = <<arg[1] + 1>>
    /\ IF PushIgnored
       THEN /\ result' = <<"ignored">>
            /\ UNCHANGED pushVars
       ELSE /\ result' = <<"accepted">>
            /\ lastPushTime' = now
            /\ pushTimers' = Append(pushTimers, now + PushDelayMs)
    /\ UNCHANGED <<now, clockVars, configVars, schedVars, supVars, farmVars, xp, expands, expandPre>>

\* the oldest timer set by onLandsChangedPush fires, at or after its time:
\* "if (!isCheckingFarm) await checkFarm()"
PushTimerFire ==
    /\ Len(pushTimers) > 0
    /\ Head(pushTimers) <= now
    /\ pushTimers' = Tail(pushTimers)
    /\ IF ~isCheckingFarm THEN CheckFarmCall("push")
       ELSE UNCHANGED <<farmVars, expandPre>>
    /\ UNCHANGED <<now, clockVars, configVars, lastPushTime, probeVars, schedVars, supVars, xp, expands>>

\* the local clock advances by a tenth of a second
PushTick ==
    /\ now < StartMs + MaxPushTicks * PushDelayMs
    /\ now' = now + PushDelayMs
    /\ UNCHANGED <<clockVars, configVars, pushVars, probeVars, schedVars, supVars, farmVars, xp, expands, expandPre>>

NextPush ==
    \/ OnLandsChangedPush
    \/ PushTimerFire
    \/ LoopCheck
    \/ \E c \in Callers : LandsReply(c)
    \/ PushTick

SpecPush == InitPush /\ [][NextPush]_vars

\* C20: a landsChanged push that arrives while a cycle is in flight, or less
\* than 500 ms after the last accepted push, changes neither lastPushTime nor
\* the timers nor the farm; any other push sets lastPushTime to now and adds
\* exactly one timer, due later than now, and starts no cycle itself;
\* lastPushTime is written by nothing else and moves by at least 500 ms; a
\* timer fires no earlier than it is due, starts nothing when a cycle is in
\* flight and starts a cycle otherwise.
C20_Push ==
    /\ [][arg' # arg /\ (isCheckingFarm \/ now - lastPushTime < 500) =>
             /\ result' = <<"ignored">>
             /\ UNCHANGED <<pushVars, farmVars>>]_vars
    /\ [][arg' # arg /\ ~(isCheckingFarm \/ now - lastPushTime < 500) =>
             /\ result' = <<"accepted">>
             /\ lastPushTime' = now
             /\ Len(pushTimers') = Len(pushTimers) + 1
             /\ SubSeq(pushTimers', 1, Len(pushTimers)) = pushTimers
             /\ pushTimers'[Len(pushTimers')] > now
             /\ UNCHANGED farmVars]_vars
    /\ [][lastPushTime' # lastPushTime =>
             arg' # arg /\ lastPushTime' - lastPushTime >= 500]_vars
    /\ [][Len(pushTimers') < Len(pushTimers) =>
             /\ Head(pushTimers) <= now
             /\ arg' = arg
             /\ isCheckingFarm => UNCHANGED farmVars
             /\ ~isCheckingFarm => cycles' = cycles + 1 /\ isCheckingFarm']_vars

\* a push 400 ms after an accepted one, whose timer has fired and whose cycle
\* has ended, is ignored
C20_Witness ==
    /\ result = <<"ignored">>
    /\ ~isCheckingFarm
    /\ now - lastPushTime = 400
    /\ pushTimers = <<>>
    /\ cycles = 1
    /\ calls # <<>>

\* ------------------------------------------------------- the patrol loop
MaxSchedTicks == 8
\* the timers of the scheduler are counted in steps of half a second
SchedTickMs == DebounceMs
\* "setTimeout(() => farmCheckLoop(), 2000)"
StartupDelayMs == 2 * 1000
\* CONFIG.farmCheckInterval: client.js sets it to at least one second
FarmCheckIntervalMs == 1 * 1000

\* a timer set now: the steps left until it is due, and the steps it has waited
Timer(delayMs) == [left |-> delayMs \div SchedTickMs, waited |-> 0]

\* one step passes for a timer
Elapse(t) ==
    [t EXCEPT !.left = IF @ > 0 THEN @ - 1 ELSE 0,
              !.waited = IF @ < StartupDelayMs \div SchedTickMs THEN @ + 1 ELSE @]

Sleeping == [pc |-> "sleep"] @@ Timer(FarmCheckIntervalMs)
Checking == [pc |-> "check", left |-> 0, waited |-> 0]

LiveLoops == {k \in DOMAIN loops : loops[k].pc # "none"}

\* an activation of farmCheckLoop awaits a checkFarm() that has returned: its
\* continuation runs before any timer does
ResumePending == \E k \in DOMAIN loops : loops[k].pc = "check" /\ inv["loop"].pc = "idle"

\* the loop test left out: the activation calls checkFarm whatever the flag
LoopEnterNoTest(k) ==
    /\ CheckFarmCall("loop")
    /\ loops' = [loops EXCEPT ![k] = IF CheckFarmGuard THEN Sleeping ELSE Checking]

\* "while (farmLoopRunning) { await checkFarm(); ... }" entered by the
\* activation of slot k: the loop ends, or checkFarm returns at its guard and
\* the activation goes to sleep, or checkFarm starts a cycle
LoopEnter(k) ==
    IF ~farmLoopRunning
    THEN loops' = [loops EXCEPT ![k] = NoLoop] /\ UNCHANGED <<farmVars, expandPre>>
    ELSE /\ CheckFarmCall("loop")
         /\ loops' = [loops EXCEPT ![k] = IF CheckFarmGuard THEN Sleeping ELSE Checking]

SchedRest == <<now, clockVars, configVars, pushVars, probeVars, xp, expands, supVars>>

\* startFarmCheckLoop(); it is not called again while MaxLoops activations of
\* the loop are still alive
StartFarmCheckLoopCall ==
    IF farmLoopRunning
    THEN UNCHANGED schedVars
    ELSE /\ LiveLoops # DOMAIN loops
         /\ farmLoopRunning' = TRUE
         /\ listening' = TRUE
         /\ farmCheckTimer' = <<[fired |-> FALSE] @@ Timer(StartupDelayMs)>>
         /\ landStatsTimer' = TRUE
         /\ UNCHANGED loops

StartFarmCheckLoop ==
    /\ StartFarmCheckLoopCall
    /\ UNCHANGED <<SchedRest, farmVars, expandPre>>

\* stopFarmCheckLoop()
StopFarmCheckLoopCall ==
    /\ farmLoopRunning' = FALSE
    /\ farmCheckTimer' = <<>>
    /\ landStatsTimer' = FALSE
    /\ listening' = FALSE
    /\ UNCHANGED loops

StopFarmCheckLoop ==
    /\ StopFarmCheckLoopCall
    /\ UNCHANGED <<SchedRest, farmVars, expandPre>>

\* the startup timer fires: "() => farmCheckLoop()"
FarmCheckTimerFire ==
    /\ farmCheckTimer # <<>>
    /\ ~farmCheckTimer[1].fired
    /\ farmCheckTimer[1].left = 0
    /\ ~ResumePending
    /\ LiveLoops # DOMAIN loops
    /\ farmCheckTimer' = <<[farmCheckTimer[1] EXCEPT !.fired = TRUE]>>
    /\ LoopEnter(CHOOSE k \in DOMAIN loops \ LiveLoops : \A j \in DOMAIN loops \ LiveLoops : k <= j)
    /\ UNCHANGED <<farmLoopRunning, landStatsTimer, listening, SchedRest>>

\* "await sleep(CONFIG.farmCheckInterval)" is over: back to the loop test
LoopWake(k) ==
    /\ loops[k].pc = "sleep"
    /\ loops[k].left = 0
    /\ ~ResumePending
    /\ LoopEnter(k)
    /\ UNCHANGED <<farmLoopRunning, farmCheckTimer, landStatsTimer, listening, SchedRest>>

\* "await checkFarm()" is over: "if (!farmLoopRunning) break; await sleep(...)"
LoopResume(k) ==
    /\ loops[k].pc = "check"
    /\ inv["loop"].pc = "idle"
    /\ loops' = [loops EXCEPT ![k] = IF farmLoopRunning THEN Sleeping ELSE NoLoop]
    /\ UNCHANGED <<farmLoopRunning, farmCheckTimer, landStatsTimer, listening, SchedRest,
                   farmVars, expandPre>>

\* one step passes for every pending timer of the scheduler
TimersElapse ==
    /\ farmCheckTimer' = IF farmCheckTimer = <<>> THEN <<>> ELSE <<Elapse(farmCheckTimer[1])>>
    /\ loops' = [k \in DOMAIN loops |-> IF loops[k].pc = "sleep" THEN Elapse(loops[k]) ELSE loops[k]]
    /\ UNCHANGED <<farmLoopRunning, landStatsTimer, listening>>

\* the local clock advances by one step
SchedTick ==
    /\ now < StartMs + MaxSchedTicks * SchedTickMs
    /\ ~ResumePending
    /\ now' = now + SchedTickMs
    /\ TimersElapse
    /\ UNCHANGED <<clockVars, configVars, pushVars, probeVars, farmVars, xp, expands, expandPre,
                   supVars>>

\* a 'landsChanged' event is emitted to the subscribed handler
LandsChanged ==
    /\ listening
    /\ IF PushIgnored THEN UNCHANGED pushVars
       ELSE /\ lastPushTime' = now
            /\ pushTimers' = Append(pushTimers, now + PushDelayMs)
    /\ UNCHANGED <<now, clockVars, configVars, schedVars, supVars, probeVars, farmVars, xp, expands, expandPre>>

InitSched ==
    /\ Idle
    /\ farm = "sched"
    /\ arg = <<>>
    /\ result = <<>>

NextSched ==
    \/ StartFarmCheckLoop
    \/ StopFarmCheckLoop
    \/ FarmCheckTimerFire
    \/ \E k \in DOMAIN loops : LoopWake(k)
    \/ \E k \in DOMAIN loops : LoopResume(k)
    \/ LandsChanged
    \/ PushTimerFire
    \/ \E c \in Callers : LandsReply(c)
    \/ SchedTick

SpecSched == InitSched /\ [][NextSched]_vars

\* time passes for the timers of the scheduler; no step of the loop reads
\* Date.now(), which is left as it is
TimerTick ==
    /\ ~ResumePending
    /\ \/ farmCheckTimer # <<>> /\ farmCheckTimer[1].left > 0
       \/ \E k \in DOMAIN loops : loops[k].pc = "sleep" /\ loops[k].left > 0
    /\ TimersElapse
    /\ UNCHANGED <<now, clockVars, configVars, pushVars, probeVars, farmVars, xp, expands, expandPre,
                   supVars>>

\* the periodic loop alone, with every response arriving and every timer
\* that is due run by the event loop; a due sleep is held up only while
\* another activation's continuation is pending, hence strong fairness
NextLoop ==
    \/ StartFarmCheckLoop
    \/ StopFarmCheckLoop
    \/ FarmCheckTimerFire
    \/ \E k \in DOMAIN loops : LoopWake(k)
    \/ \E k \in DOMAIN loops : LoopResume(k)
    \/ LandsReply("loop")
    \/ TimerTick

SpecLoop ==
    /\ InitSched
    /\ [][NextLoop]_vars
    /\ WF_vars(FarmCheckTimerFire)
    /\ \A k \in 1..MaxLoops : SF_vars(LoopWake(k))
    /\ \A k \in 1..MaxLoops : WF_vars(LoopResume(k))
    /\ WF_vars(LandsReply("loop"))
    /\ WF_vars(TimerTick)

\* C21 as claimed: stopFarmCheckLoop leaves no timer of the scheduler pending,
\* so that no cycle starts (no acquisition of the in-flight flag, no snapshot
\* fetch) while farmLoopRunning is false, that is between a stop and the next
\* start.
C21_StopStopsCycles ==
    [][~isCheckingFarm /\ isCheckingFarm' => farmLoopRunning]_vars

\* stopFarmCheckLoop has returned and a timer of onLandsChangedPush is pending
C21_Witness ==
    /\ ~farmLoopRunning
    /\ ~listening
    /\ farmCheckTimer = <<>>
    /\ ~landStatsTimer
    /\ ~isCheckingFarm
    /\ pushTimers # <<>>

\* the activation of slot k is in an attempt or has just left one
Fresh(k) == loops[k].pc = "check" \/ (loops[k].pc = "sleep" /\ loops[k].waited = 0)

\* C22: an activation of farmCheckLoop begins only when the startup timer has
\* waited its 2000 ms; a cycle of the loop starts only with farmLoopRunning
\* set, from the startup timer or from a sleep that has waited the interval;
\* while farmLoopRunning stays set and the responses arrive, attempts and
\* sleeps of an activation alternate for ever; an activation that finds the
\* flag cleared attempts nothing and ends, and if the flag stays cleared every
\* activation ends.
C22_Periodic ==
    /\ [][\A k \in DOMAIN loops : loops[k].pc = "none" /\ loops'[k].pc # "none" =>
             /\ farmLoopRunning
             /\ farmCheckTimer # <<>> /\ ~farmCheckTimer[1].fired /\ farmCheckTimer'[1].fired
             /\ farmCheckTimer[1].waited * 500 >= 2000]_vars
    /\ [][inv["loop"].pc = "idle" /\ inv'["loop"].pc # "idle" =>
             /\ farmLoopRunning
             /\ \E k \in DOMAIN loops :
                   /\ loops'[k].pc = "check"
                   /\ \/ loops[k].pc = "none"
                      \/ loops[k].pc = "sleep" /\ loops[k].waited * 500 >= FarmCheckIntervalMs]_vars
    /\ [][~farmLoopRunning =>
             \A k \in DOMAIN loops : loops'[k].pc \in {loops[k].pc, "none"}]_vars
    /\ (farmCheckTimer # <<>> /\ ~farmCheckTimer[1].fired) ~> (LiveLoops # {} \/ ~farmLoopRunning)
    /\ \A k \in 1..MaxLoops : (Fresh(k) ~> (~Fresh(k) \/ ~farmLoopRunning))
    /\ \A k \in 1..MaxLoops :
          (loops[k].pc = "sleep" /\ ~Fresh(k)) ~> (Fresh(k) \/ ~farmLoopRunning)
    /\ <>[](~farmLoopRunning) => <>[](LiveLoops = {})

\* the second cycle of one activation of the loop
C22_Witness ==
    /\ farmLoopRunning
    /\ LiveLoops = {1}
    /\ loops[1].pc = "check"
    /\ cycles = 2
    /\ farmCheckTimer # <<>> /\ farmCheckTimer[1].fired

\* ---------------------------------------------------------- findBestSeed
\* the type-1 conditions of a goods entry, scanned as the loop at lines
\* 341-349 does: r is the requiredLevel so far; level is <<>> when
\* state.level is unset and <<n>> otherwise ("undefined < n" is false)
RECURSIVE CondScan(_, _, _, _)
CondScan(conds, i, r, level) ==
    IF i > Len(conds) THEN [meets |-> TRUE, requiredLevel |-> r]
    ELSE IF conds[i].type = 1
         THEN IF Len(level) = 1 /\ level[1] < conds[i].param
              THEN [meets |-> FALSE, requiredLevel |-> conds[i].param]
              ELSE CondScan(conds, i + 1, conds[i].param, level)
         ELSE CondScan(conds, i + 1, r, level)

GoodsPasses(goods, level) ==
    /\ goods.unlocked
    /\ CondScan(goods.conds, 1, 0, level).meets
    /\ ~(goods.limit_count > 0 /\ goods.bought_num >= goods.limit_count)

\* the list "available", in the order of goods_list
Available(goodsList, level) ==
    LET kept == SelectSeq(goodsList, LAMBDA g : GoodsPasses(g, level))
    IN  [i \in DOMAIN kept |->
            [goods |-> kept[i], seedId |-> kept[i].item_id, price |-> kept[i].price,
             requiredLevel |-> CondScan(kept[i].conds, 1, 0, level).requiredLevel]]

\* the comparators handed to Array.prototype.sort
ByLevelThenPrice(a, b) ==
    IF a.requiredLevel # b.requiredLevel THEN a.requiredLevel - b.requiredLevel
    ELSE a.price - b.price
ByLevel(a, b) == a.requiredLevel - b.requiredLevel
ByLevelDesc(a, b) == b.requiredLevel - a.requiredLevel

\* element [0] of a non-empty list after a stable sort by Cmp
SortedFirst(list, Cmp(_, _)) ==
    list[CHOOSE i \in DOMAIN list :
            /\ \A j \in DOMAIN list : Cmp(list[j], list[i]) >= 0
            /\ \A j \in 1..(i - 1) : Cmp(list[j], list[i]) > 0]

\* Array.prototype.find
Find(list, seedId) ==
    LET hits == {i \in DOMAIN list : list[i].seedId = seedId}
    IN  IF hits = {} THEN <<>> ELSE <<list[CHOOSE i \in hits : \A j \in hits : i <= j]>>

\* "for (const seedId of rankedSeedIds) { hit = available.find(..); if (hit) return hit }"
RECURSIVE RankedHit(_, _, _)
RankedHit(available, ranked, i) ==
    IF i > Len(ranked) THEN <<>>
    ELSE IF Find(available, ranked[i]) # <<>> THEN Find(available, ranked[i])
    ELSE RankedHit(available, ranked, i + 1)

\* "if (state.level && state.level <= 28)"
FallbackLevel == 28
LowLevel(level) == Len(level) = 1 /\ level[1] # 0 /\ level[1] <= FallbackLevel

\* lines 401-406
Fallback(available, level) ==
    IF LowLevel(level) THEN <<SortedFirst(available, ByLevel)>>
    ELSE <<SortedFirst(available, ByLevelDesc)>>

\* preferredSeedId is kept whatever the list holds
PreferredSkipped(available, preferredSeedId) == <<>>

\* lines 372-380: <<>> when no seed is pinned or the pinned one is not
\* available
Preferred(available, preferredSeedId) ==
    IF preferredSeedId # 0 THEN Find(available, preferredSeedId) ELSE <<>>

\* findBestSeed after getShopInfo has answered with goodsList: <<>> for null,
\* <<entry>> otherwise. rec is what getPlantingRecommendation does: it throws
\* (ok false) or returns the ranked seed ids
FindBestSeed(goodsList, level, preferredSeedId, forceLowestLevelCrop, rec) ==
    LET available == Available(goodsList, level)
    IN  IF Len(goodsList) = 0 \/ Len(available) = 0 THEN <<>>
        ELSE IF Preferred(available, preferredSeedId) # <<>>
             THEN Preferred(available, preferredSeedId)
        ELSE IF forceLowestLevelCrop THEN <<SortedFirst(available, ByLevelThenPrice)>>
        ELSE IF rec.ok /\ RankedHit(available, rec.ids, 1) # <<>>
             THEN RankedHit(available, rec.ids, 1)
        ELSE Fallback(available, level)

\* goods entries of the seed shop
GoodsChoices ==
    {[item_id |-> sid, price |-> pr, unlocked |-> u, conds |-> cs,
      limit_count |-> lc, bought_num |-> 1] :
        sid \in 1..2, pr \in {10, 20}, u \in BOOLEAN, lc \in 0..1,
        cs \in {<<>>, <<[type |-> 1, param |-> 5]>>, <<[type |-> 1, param |-> 29]>>,
                <<[type |-> 2, param |-> 5]>>}}

GoodsLists == {<<>>} \cup {<<g>> : g \in GoodsChoices} \cup (GoodsChoices \X GoodsChoices)

\* state.level: unset, 0, and both sides of the two limits that matter
Levels == {<<>>, <<0>>, <<5>>, <<FallbackLevel>>, <<FallbackLevel + 1>>}

\* CONFIG.preferredSeedId: none, one the shop may sell, one it does not
PreferredIds == {0, 1, 3}

\* getPlantingRecommendation: throws, ranks a seed the shop does not sell, or
\* ranks seed 2 before seed 1
Recommendations == {[ok |-> FALSE, ids |-> <<>>], [ok |-> TRUE, ids |-> <<3>>],
                    [ok |-> TRUE, ids |-> <<2, 1>>]}

InitSeed ==
    /\ Idle
    /\ farm = "bare"
    /\ arg \in GoodsLists \X Levels \X PreferredIds \X BOOLEAN \X Recommendations
    /\ result = <<>>

\* one call of findBestSeed whose getShopInfo has answered
SelectSeed ==
    /\ result = <<>>
    /\ result' = <<FindBestSeed(arg[1], arg[2], arg[3], arg[4], arg[5])>>
    /\ UNCHANGED <<now, clockVars, configVars, pushVars, schedVars, supVars, arg, farmVars, xp, expands, expandPre>>

SpecSeed == InitSeed /\ [][SelectSeed]_vars

\* the goods that pass the filter, stated from the fields of the entry: it is
\* unlocked, the level (when set) is not below any type-1 condition, and the
\* purchase limit is not used up
Buyable(g, level) ==
    /\ g.unlocked
    /\ \A i \in DOMAIN g.conds :
          g.conds[i].type = 1 /\ Len(level) = 1 => level[1] >= g.conds[i].param
    /\ g.limit_count = 0 \/ g.bought_num < g.limit_count

\* C23: when at least one entry of the catalog passes the filter, findBestSeed
\* returns an entry that passes it, never null, whatever preferredSeedId,
\* forceLowestLevelCrop and the recommendation are; when an available entry
\* has the pinned seed id, the first such entry is returned.
C23_SelectorTotal ==
    result # <<>> =>
        LET goodsList == arg[1]
            level     == arg[2]
            buyable   == {i \in DOMAIN goodsList : Buyable(goodsList[i], level)}
            pinned    == {i \in buyable : arg[3] # 0 /\ goodsList[i].item_id = arg[3]}
        IN  /\ buyable # {} =>
                /\ Len(result[1]) = 1
                /\ \E i \in buyable : result[1][1].goods = goodsList[i]
            /\ buyable = {} => result[1] = <<>>
            /\ pinned # {} =>
                  result[1][1].goods = goodsList[CHOOSE i \in pinned : \A j \in pinned : i <= j]

\* the pinned seed is sold second, cheapest is forced and the recommendation
\* ranks the other seed first: the pinned one is returned
C23_Witness ==
    /\ result # <<>>
    /\ Len(arg[1]) = 2
    /\ arg[3] = 1 /\ arg[4] /\ arg[5].ok
    /\ arg[1][1].item_id = 2 /\ Buyable(arg[1][1], arg[2])
    /\ arg[1][2].item_id = 1 /\ Buyable(arg[1][2], arg[2])
    /\ arg[1][2].price > arg[1][1].price
    /\ result[1][1].goods = arg[1][2]

\* the level requirements of the entries that pass the filter
Requirements(goodsList, level) ==
    {CondScan(goodsList[i].conds, 1, 0, level).requiredLevel :
        i \in {j \in DOMAIN goodsList : Buyable(goodsList[j], level)}}

\* no rule before the fallback applies: no pinned id among the available
\* entries, and the recommendation throws or matches nothing
NoPinApplies == Preferred(Available(arg[1], arg[2]), arg[3]) = <<>>
NoRankingHit == ~arg[5].ok \/ RankedHit(Available(arg[1], arg[2]), arg[5].ids, 1) = <<>>

\* C28: with no pinned id applying, force-cheapest off and no ranking hit,
\* findBestSeed returns an available entry with the minimal level requirement
\* when the level is below the threshold (unset and zero included) and one
\* with the maximal level requirement when it is at or above the threshold;
\* with force-cheapest on it returns an entry with the lowest level
\* requirement and, among those, the lowest price.
C28_Fallback ==
    (result # <<>> /\ result[1] # <<>> /\ NoPinApplies) =>
        LET level == arg[2]
            reqs  == Requirements(arg[1], level)
            got   == result[1][1]
            below == Len(level) = 0 \/ level[1] <= FallbackLevel
        IN  /\ (~arg[4] /\ NoRankingHit /\ below) =>
                  \A r \in reqs : got.requiredLevel <= r
            /\ (~arg[4] /\ NoRankingHit /\ ~below) =>
                  \A r \in reqs : got.requiredLevel >= r
            /\ arg[4] =>
                  /\ \A r \in reqs : got.requiredLevel <= r
                  /\ \A i \in DOMAIN arg[1] :
                        (/\ Buyable(arg[1][i], level)
                         /\ CondScan(arg[1][i].conds, 1, 0, level).requiredLevel = got.requiredLevel)
                        => got.price <= arg[1][i].price

\* the level is unset, the shop sells an entry without level condition and one
\* that asks for level 29, and the fallback returns the latter
C28_Witness ==
    /\ result # <<>> /\ result[1] # <<>>
    /\ arg[2] = <<>> /\ ~arg[4] /\ NoPinApplies /\ NoRankingHit
    /\ Requirements(arg[1], arg[2]) = {0, FallbackLevel + 1}
    /\ result[1][1].requiredLevel = FallbackLevel + 1

\* ------------------------------------------------------ disabled features
\* the defaults of CONFIG that Test 1 of runTests requires
DefaultConfig == [autoExpandLand |-> FALSE, autoUpgradeRedLand |-> FALSE]

\* a request of kind op is outstanding or has been issued, by a cycle or by
\* expandLandsOnLogin
Requested(op, sleepPc) ==
    \/ \E c \in Callers : inv[c].pc \in {op, sleepPc}
    \/ xp.pc \in {op, sleepPc}
    \/ \E i \in DOMAIN calls : calls[i].op = op

\* C24: both features are off in the default configuration; while
\* autoExpandLand is off no unlock request is issued by a cycle or by
\* expandLandsOnLogin and unlockRetryCooldown gets no new entry; the same for
\* autoUpgradeRedLand, upgrade requests and upgradeRetryCooldown.
C24_DisabledFeatures ==
    /\ [](~DefaultConfig.autoExpandLand /\ ~DefaultConfig.autoUpgradeRedLand)
    /\ [](~autoExpandLand => ~Requested("unlock", "unlockSleep"))
    /\ [](~autoUpgradeRedLand => ~Requested("upgrade", "upgradeSleep"))
    /\ [][~autoExpandLand => DOMAIN unlockRetryCooldown' \subseteq DOMAIN unlockRetryCooldown]_vars
    /\ [][~autoUpgradeRedLand => DOMAIN upgradeRetryCooldown' \subseteq DOMAIN upgradeRetryCooldown]_vars

\* unlocking is off, upgrading is on; a cycle and expandLandsOnLogin have both
\* seen plots that could be unlocked and are past that point, at their
\* upgrade requests
C24_Witness ==
    /\ ~autoExpandLand /\ autoUpgradeRedLand
    /\ \E c \in Callers :
          inv[c].pc = "upgrade" /\ Len(inv[c].status.eligibleForUnlock) > 0
    /\ xp.pc = "upgrade" /\ Len(xp.toUnlock) > 0

\* ------------------------------------------------- snapshot-fetch failure
\* The periodic loop on a farm whose snapshot fetch throws, returns no plot,
\* or returns one plot that needs water.
InitRetry ==
    /\ Idle
    /\ farm = "retry"
    /\ arg = <<>>
    /\ result = <<>>

NextRetry ==
    \/ StartFarmCheckLoop
    \/ StopFarmCheckLoop
    \/ FarmCheckTimerFire
    \/ \E k \in DOMAIN loops : LoopWake(k)
    \/ \E k \in DOMAIN loops : LoopResume(k)
    \/ LandsReply("loop")
    \/ BatchReply("loop")
    \/ TimerTick

SpecRetry ==
    /\ InitRetry
    /\ [][NextRetry]_vars
    /\ WF_vars(FarmCheckTimerFire)
    /\ \A k \in 1..MaxLoops : SF_vars(LoopWake(k))
    /\ \A k \in 1..MaxLoops : WF_vars(LoopResume(k))
    /\ WF_vars(LandsReply("loop"))
    /\ WF_vars(BatchReply("loop"))
    /\ WF_vars(TimerTick)

\* the cycle of the loop has ended at its snapshot fetch: nothing but the
\* fetch is in its log
EndedAtFetch == inv["loop"].pc = "idle" /\ calls = <<Call("lands", <<>>)>>

\* C25: when getAllLands throws or returns no plot, the cycle ends there: it
\* issues no request, leaves the cooldown maps and the gold as they are and
\* releases isCheckingFarm (a cycle that goes on past the fetch has got a
\* snapshot with a plot); farmCheckLoop then sleeps the interval and calls
\* checkFarm again, unless it is stopped.
C25_SnapshotFailure ==
    /\ [][(inv["loop"].pc = "lands" /\ inv'["loop"].pc = "idle") =>
            /\ calls' = calls
            /\ UNCHANGED <<cooldownVars, gold>>
            /\ ~isCheckingFarm']_vars
    /\ [][(inv["loop"].pc = "lands" /\ inv'["loop"].pc \notin {"lands", "idle"}) =>
            /\ Len(calls') > Len(calls)
            /\ inv'["loop"].status.needWater # <<>>]_vars
    /\ [][\A k \in DOMAIN loops :
            (loops[k].pc = "sleep" /\ loops'[k].pc = "check") =>
                loops[k].waited * SchedTickMs >= FarmCheckIntervalMs]_vars
    /\ (EndedAtFetch /\ LiveLoops # {}) ~> (inv["loop"].pc = "lands" \/ ~farmLoopRunning)

\* the second cycle of the loop has ended at its fetch, like the first or
\* after a first one that watered
C25_Witness ==
    /\ farmLoopRunning
    /\ cycles >= 2
    /\ EndedAtFetch
    /\ ~isCheckingFarm
    /\ \E k \in DOMAIN loops : loops[k].pc = "check"

\* ------------------------------------------- dead and ripe plots, needs
\* the unlocked lands of a snapshot whose current phase is DEAD or MATURE
Residue(lands, nowSec) ==
    {i \in DOMAIN lands :
        /\ lands[i].unlocked
        /\ ~IsEmptyLand(lands[i])
        /\ CurrentPhaseOf(lands[i], nowSec) # <<>>
        /\ CurrentPhaseOf(lands[i], nowSec)[1].phase \in {PlantPhase.DEAD, PlantPhase.MATURE}}

\* C26: a land whose current phase is DEAD or MATURE is in none of needWater,
\* needWeed and needBug, whatever its dry_num, owner lists and phase timers
\* are, and no maintenance request built from the status names it.
C26_NoNeedsOnResidue ==
    result # <<>> =>
        LET lands == arg[1]
            st    == result[1]
            ops   == BatchOps(st)
        IN  \A i \in Residue(lands, arg[2]) :
                /\ lands[i].id \notin ToSet(st.needWater) \cup ToSet(st.needWeed) \cup ToSet(st.needBug)
                /\ lands[i].id \in ToSet(st.dead) \cup ToSet(st.harvestable)
                /\ \A k \in DOMAIN ops : lands[i].id \notin ToSet(ops[k].ids)

\* a ripe plot with dry_num and both owner counts set and all three timers of
\* its current phase passed: harvestable, and in no need list
C26_Witness ==
    /\ result # <<>>
    /\ Len(arg[1]) = 1
    /\ Residue(arg[1], arg[2]) = {1}
    /\ arg[1][1].plant[1].dry_num > 0
    /\ arg[1][1].plant[1].weed_owners > 0
    /\ arg[1][1].plant[1].insect_owners > 0
    /\ LET cur == CurrentPhaseOf(arg[1][1], arg[2])[1]
       IN  /\ cur.phase = PlantPhase.MATURE
           /\ Passed(cur.dry_time, arg[2]) /\ Passed(cur.weeds_time, arg[2])
           /\ Passed(cur.insect_time, arg[2])
    /\ result[1].harvestable = <<1>>
    /\ result[1].needWater = <<>> /\ result[1].needWeed = <<>> /\ result[1].needBug = <<>>

\* ------------------------------------------------------ removal failure
\* The cycles of the loop on any farm, both features off, with the outcome of
\* removePlant noted in result.
InitRemoval ==
    /\ Init
    /\ gid = 1
    /\ ~autoExpandLand
    /\ ~autoUpgradeRedLand

\* removePlant(deadLandIds) resolves (ok) or throws: lines 414-424
RemoveSettles ==
    /\ inv["loop"].pc = "remove"
    /\ \E ok \in Replies :
          /\ Commit("loop", AfterRemove(Ctx("loop")))
          /\ result' = <<[ok |-> ok, dead |-> inv["loop"].deadLandIds]>>
    /\ UNCHANGED <<now, clockVars, configVars, pushVars, schedVars, supVars, arg, xp, expands, cycles>>

NextRemoval ==
    \/ LoopCheck
    \/ LandsReply("loop")
    \/ BatchReply("loop")
    \/ HarvestReply("loop")
    \/ RemoveSettles
    \/ ShopReply("loop")
    \/ BuyReply("loop")
    \/ PlantReply("loop")
    \/ PlantSleepDone("loop")
    \/ FertilizeReply("loop")
    \/ FertilizeSleepDone("loop")

SpecRemoval == InitRemoval /\ [][NextRemoval]_vars

\* C27: whether removePlant resolves or throws, autoPlantEmptyLands goes on
\* the same way: the dead and harvested ids are appended to the planting
\* candidates and the seed selection is asked for, with nothing else changed;
\* purchase and planting follow from there in the same cycle.
C27_RemovalBestEffort ==
    [][(inv["loop"].pc = "remove" /\ inv'["loop"].pc # "remove") =>
          /\ inv'["loop"].pc = "shop"
          /\ inv["loop"].deadLandIds # <<>>
          /\ inv'["loop"].landsToPlant = inv["loop"].landsToPlant \o inv["loop"].deadLandIds
          /\ calls' = Append(calls, Call("shop", <<>>))
          /\ isCheckingFarm'
          /\ UNCHANGED <<gold, cooldownVars>>]_vars

\* the removal of the first cycle has failed, seeds were bought, and the
\* plot that could not be cleared is being planted
C27_Witness ==
    /\ cycles = 1
    /\ result # <<>> /\ ~result[1].ok
    /\ inv["loop"].pc = "plant"
    /\ \E i \in DOMAIN calls :
          /\ calls[i].op = "plant"
          /\ calls[i].ids[1] \in ToSet(result[1].dead)
    /\ \E i \in DOMAIN calls : calls[i].op = "buy"

\* ------------------------------------------------------- the clock alone
MaxClockSteps == 4

\* how far Date.now() moves between two events; the local clock may be set back
ClockSteps == {0 - 300, 300, 700}

\* the server times handed to syncServerTime
ServerTimes == {0, 1500, StartMs + 400}

\* syncServerTime(ms); arg keeps the arguments of the last sync, <<>> before
\* the first one
SyncServerTime(ms) ==
    /\ serverTimeMs' = ms
    /\ localTimeAtSync' = now
    /\ arg' = <<ms, now>>
    /\ UNCHANGED <<now, configVars, pushVars, schedVars, supVars, result, farmVars, xp, expands, expandPre>>

ClockStep ==
    /\ \E d \in ClockSteps :
          /\ now + d >= StartMs
          /\ now + d <= StartMs + MaxClockSteps * 1000
          /\ now' = now + d
    /\ UNCHANGED <<clockVars, configVars, pushVars, schedVars, supVars, probeVars, farmVars, xp, expands, expandPre>>

InitClock ==
    /\ Idle
    /\ farm = "bare"
    /\ arg = <<>>
    /\ result = <<>>

NextClock ==
    \/ \E ms \in ServerTimes : SyncServerTime(ms)
    \/ ClockStep

SpecClock == InitClock /\ [][NextClock]_vars

\* C29 as claimed: after a sync with server time S taken at local time L,
\* getServerTimeSec returns floor((S + (now - L)) / 1000) at every later local
\* time, and floor(now / 1000) before the first sync and only then; between two
\* syncs it does not decrease while the local clock does not; a sync changes
\* serverTimeMs and localTimeAtSync and nothing else of the program's state.
C29_Estimator ==
    /\ [](arg = <<>> => GetServerTimeSec = now \div 1000)
    /\ [](arg # <<>> => GetServerTimeSec = (arg[1] + (now - arg[2])) \div 1000)
    /\ [][(UNCHANGED clockVars /\ now' >= now) =>
             GetServerTimeSecAt(serverTimeMs', localTimeAtSync', now') >= GetServerTimeSec]_vars
    /\ [][UNCHANGED clockVars \/
             UNCHANGED <<now, configVars, pushVars, schedVars, supVars, result, farmVars, xp, expands, expandPre>>]_vars

\* a sync with server time 0 was taken at L, the local clock has moved on, and
\* the estimate is the local second, not the second since the sync
C29_Witness ==
    /\ arg # <<>>
    /\ arg[1] = 0
    /\ serverTimeMs = 0 /\ localTimeAtSync = arg[2]
    /\ now > arg[2]
    /\ GetServerTimeSec = now \div 1000
    /\ GetServerTimeSec # (arg[1] + (now - arg[2])) \div 1000

\* ------------------------------------------- expandLandsOnLogin and cycles
\* expandLandsOnLogin is at one of its unlock or upgrade requests, or asleep
\* between two of them
XpInPass == xp.pc \in {"unlock", "unlockSleep", "upgrade", "upgradeSleep"}

\* a cycle and expandLandsOnLogin both wait for the answer to a request of
\* kind op for the same plot
TwoOutstanding(op) ==
    /\ xp.pc = op
    /\ \E c \in Callers : inv[c].pc = op /\ inv[c].list[inv[c].i] = xp.list[xp.i]

\* C30 as claimed: the cooldown maps are touched only by a cycle holding
\* isCheckingFarm: expandLandsOnLogin neither runs its unlock / upgrade
\* requests nor changes the cooldown maps while a cycle is in flight, and no
\* plot has two unlock or two upgrade requests outstanding at once.
C30_ExpandOutsideCycles ==
    /\ [](XpInPass => ~isCheckingFarm)
    /\ [](~TwoOutstanding("unlock") /\ ~TwoOutstanding("upgrade"))
    /\ [][(xp' # xp /\ cooldownVars' # cooldownVars) => ~isCheckingFarm]_vars

\* a cycle holds isCheckingFarm and waits for the answer to its unlock request
\* for a plot while expandLandsOnLogin waits for the answer to its own unlock
\* request for the same plot
C30_Witness ==
    /\ isCheckingFarm
    /\ TwoOutstanding("unlock")

\* ------------------------------------------------ one loop at a time
\* the activation of slot k has passed the loop test on waking: it is in a
\* cycle, or has gone back to sleep after checkFarm returned at its guard
Continues(k) ==
    /\ loops[k].pc = "sleep"
    /\ ~Fresh(k)
    /\ Fresh(k)'

\* C31 as claimed: startFarmCheckLoop while running changes nothing (no new
\* subscription, timer or loop); at most one activation of farmCheckLoop is
\* live at any time; and an activation goes on after its sleep only if it is
\* the one the latest startFarmCheckLoop has created, so that after a stop
\* and a start the old activation ends.
C31_SingleLoop ==
    /\ [][(farmLoopRunning /\ farmLoopRunning') =>
             /\ listening' = listening
             /\ landStatsTimer' = landStatsTimer
             /\ Len(farmCheckTimer') = Len(farmCheckTimer)
             /\ (farmCheckTimer # <<>> /\ farmCheckTimer[1].fired) => farmCheckTimer'[1].fired]_vars
    /\ [](Cardinality(LiveLoops) <= 1)
    /\ [][\A k \in DOMAIN loops :
             Continues(k) => farmCheckTimer # <<>> /\ farmCheckTimer[1].fired]_vars

\* two activations of farmCheckLoop with the flag set: one in a cycle, the
\* other asleep after a cycle of its own
C31_Witness ==
    /\ farmLoopRunning
    /\ farmCheckTimer # <<>> /\ farmCheckTimer[1].fired
    /\ \E j, k \in DOMAIN loops :
          /\ j # k
          /\ loops[j].pc = "check" /\ inv["loop"].pc = "lands"
          /\ loops[k].pc = "sleep" /\ loops[k].left > 0

\* ------------------------------------------------------------ replanting
\* The cycles of the loop on a farm whose plot 1 is empty and reports
\* could_upgrade in every snapshot, plots 2 and 3 being empty, ripe, dead or
\* growing; both features are off, every request is answered, and the gold
\* pays two seeds in each of the first MaxCycles cycles.
InitReplant ==
    /\ now = StartMs
    /\ serverTimeMs = 0
    /\ localTimeAtSync = 0
    /\ gid = 1
    /\ gold = 200 * MaxCycles
    /\ autoExpandLand = FALSE
    /\ autoUpgradeRedLand = FALSE
    /\ isCheckingFarm = FALSE
    /\ upgradeRetryCooldown = EmptyMap
    /\ unlockRetryCooldown = EmptyMap
    /\ inv = [c \in Callers |-> IdleInv]
    /\ xp = IdleXp
    /\ calls = <<>>
    /\ expansion = NoExpansion
    /\ cycles = 0
    /\ expands = 0
    /\ expandPre = NoPre
    /\ lastPushTime = 0
    /\ pushTimers = <<>>
    /\ arg = <<>>
    /\ SchedIdle
    /\ SupIdle
    /\ result = <<>>
    /\ farm = "fallow"

NextReplant ==
    \/ LoopCheck
    \/ LandsReply("loop")
    \/ BatchReply("loop")
    \/ HarvestReply("loop")
    \/ RemoveReply("loop")
    \/ PlantStep("loop")

SpecReplant == InitReplant /\ [][NextReplant]_vars /\ WF_vars(NextReplant)

\* a plant request for plot id is in the log of the current cycle
PlantRequested(id) ==
    \E i \in DOMAIN calls : calls[i].op = "plant" /\ id \in ToSet(calls[i].ids)

\* C32 as claimed: plot 1 stays empty and unlocked across the cycles, the gold
\* suffices, the shop has a seed and every request is answered, so a plant
\* request for plot 1 is issued in the end, although the plot reports
\* could_upgrade and autoUpgradeRedLand is off.
C32_NoStarvation == <>(PlantRequested(1) \/ gold < 100)

\* the last cycle is over its planting: it has bought and planted for the
\* other plots and has sent no plant request for plot 1
C32_Witness ==
    /\ cycles = MaxCycles
    /\ inv["loop"].pc \in {"fert", "fertSleep"}
    /\ gold < 200 * MaxCycles
    /\ \E id \in {2, 3} : PlantRequested(id)
    /\ ~PlantRequested(1)

\* ------------------------------------------ client.js: the session supervisor
MAX_RECONNECT_ATTEMPTS == 1
MAX_LOGIN_TIMEOUT_ATTEMPTS == 3
RECONNECT_LONG_WAIT_MS == 3600000
BackoffBase == 60000
BackoffCap == 300000

RECURSIVE Pow2(_)
Pow2(n) == IF n <= 0 THEN 1 ELSE 2 * Pow2(n - 1)

\* calcBackoffDelayMs(attempt)
CalcBackoffDelayMs(attempt) ==
    LET a == IF attempt < 1 THEN 1 ELSE attempt
    IN  Min(BackoffBase * Pow2(a - 1), BackoffCap)

MaxDisconnects == 3
MaxAttempt == 4
\* the attempts calcBackoffDelayMs is asked about
BackoffArgs == (0 - 1)..MaxAttempt
\* event.reason of a 'disconnected' event
Reasons == {"login_timeout", "closed"}
\* what getQQFarmCodeByScan() does: it returns a code, returns an empty code, or throws
ScanOutcomes == {"code", "empty", "throw"}
AllServices == {"friend", "task", "sell"}

\* what the supervisor neither reads nor writes
SupRest == <<now, clockVars, configVars, pushVars, farmVars, xp, expands, expandPre>>

LiveHandlers == {h \in DOMAIN handlers : handlers[h].pc # "none"}
FreeHandler == CHOOSE h \in DOMAIN handlers \ LiveHandlers :
                   \A g \in DOMAIN handlers \ LiveHandlers : h <= g

\* handleDisconnect, lines 234-247: every loop is stopped and the socket closed
StopAll ==
    /\ StopFarmCheckLoopCall
    /\ services' = {}
    /\ progressInterval' = FALSE
    /\ ws' = IF ws = "none" THEN "none" ELSE "closed"

\* the guard of handleDisconnect left out: a disconnect is handled whatever the flag
ReentrantUnguarded == FALSE

\* "if (isReconnecting) return"
Reentrant == isReconnecting

\* handleDisconnect(event) up to its first await, or to process.exit
HandleDisconnect(reason) ==
    IF Reentrant
    THEN UNCHANGED <<schedVars, isReconnecting, reconnectAttempts, loginTimeoutAttempts,
                     progressInterval, services, ws, handlers, exited>>
    ELSE LET timeouts == IF platform = "qq" /\ reason = "login_timeout"
                         THEN loginTimeoutAttempts + 1 ELSE loginTimeoutAttempts
         IN  /\ LiveHandlers # DOMAIN handlers
             /\ isReconnecting' = TRUE
             /\ StopAll
             /\ loginTimeoutAttempts' = timeouts
             /\ IF platform # "qq"
                   \/ (reason = "login_timeout" /\ timeouts >= MAX_LOGIN_TIMEOUT_ATTEMPTS)
                THEN exited' = TRUE /\ UNCHANGED <<reconnectAttempts, handlers>>
                ELSE IF reconnectAttempts < MAX_RECONNECT_ATTEMPTS
                THEN /\ reconnectAttempts' = reconnectAttempts + 1
                     /\ handlers' = [handlers EXCEPT ![FreeHandler] =
                            [pc |-> "backoff", reason |-> reason,
                             delay |-> CalcBackoffDelayMs(reconnectAttempts + 1)]]
                     /\ UNCHANGED exited
                ELSE /\ handlers' = [handlers EXCEPT ![FreeHandler] =
                            [pc |-> "longwait", reason |-> reason,
                             delay |-> RECONNECT_LONG_WAIT_MS]]
                     /\ UNCHANGED <<reconnectAttempts, exited>>

\* connect(code, callback): a new socket, logging in
Connect == ws' = "open"

\* the socket can report a disconnect: it is open, or it was closed by a
\* handler whose timer (one minute at least) is still running, so that the
\* report of the close arrives while that handler waits
Reporting ==
    \/ ws \in {"open", "in"}
    \/ ws = "closed" /\ \E h \in DOMAIN handlers : handlers[h].pc \in {"backoff", "longwait"}

\* networkEvents emits 'disconnected': handleDisconnect(event) is called
Disconnected(reason) ==
    /\ ~exited
    /\ Reporting
    /\ Len(disconnects) < MaxDisconnects
    /\ disconnects' = Append(disconnects, [reason |-> reason, ignored |-> Reentrant])
    /\ HandleDisconnect(reason)
    /\ UNCHANGED <<platform, main, probeVars, SupRest>>

\* "await sleep(delayMs)" of handler h is over: the flag is cleared and
\* startBot({qrLogin: true}) begins its scan
BackoffDone(h) ==
    /\ ~exited
    /\ handlers[h].pc = "backoff"
    /\ isReconnecting' = FALSE
    /\ handlers' = [handlers EXCEPT ![h].pc = "scan", ![h].delay = 0]
    /\ UNCHANGED <<schedVars, platform, reconnectAttempts, loginTimeoutAttempts,
                   progressInterval, services, ws, main, exited, disconnects, probeVars,
                   SupRest>>

\* the scan of handler h settles: startBot connects and returns true, returns
\* false, or throws into the handler's catch
ScanDone(h, outcome) ==
    /\ ~exited
    /\ handlers[h].pc = "scan"
    /\ handlers' = [handlers EXCEPT ![h] = NoHandler]
    /\ CASE outcome = "code" -> Connect /\ UNCHANGED isReconnecting
         [] outcome = "empty" -> UNCHANGED <<ws, isReconnecting>>
         [] OTHER -> isReconnecting' = FALSE /\ UNCHANGED ws
    /\ UNCHANGED <<schedVars, platform, reconnectAttempts, loginTimeoutAttempts,
                   progressInterval, services, main, exited, disconnects, probeVars, SupRest>>

\* "await sleep(RECONNECT_LONG_WAIT_MS)" of handler h is over: process.exit(1)
LongWaitDone(h) ==
    /\ ~exited
    /\ handlers[h].pc = "longwait"
    /\ exited' = TRUE
    /\ UNCHANGED <<schedVars, platform, isReconnecting, reconnectAttempts,
                   loginTimeoutAttempts, progressInterval, services, ws, main, handlers,
                   disconnects, probeVars, SupRest>>

\* the login of the open socket succeeds: the callback given to connect (lines 188-221)
LoginSuccess ==
    /\ ~exited
    /\ ws = "open"
    /\ ws' = "in"
    /\ reconnectAttempts' = 0
    /\ loginTimeoutAttempts' = 0
    /\ StartFarmCheckLoopCall
    /\ services' = AllServices
    /\ progressInterval' = TRUE
    /\ UNCHANGED <<platform, isReconnecting, main, handlers, exited, disconnects, probeVars,
                   SupRest>>

\* main(): the arguments are parsed and startBot(options) is called
MainStart(wx, code) ==
    /\ ~exited
    /\ main = "start"
    /\ platform' = IF wx THEN "wx" ELSE platform
    /\ IF code
       THEN Connect /\ main' = "done" /\ UNCHANGED exited
       ELSE IF wx
       THEN exited' = TRUE /\ UNCHANGED <<ws, main>>
       ELSE main' = "scan" /\ UNCHANGED <<ws, exited>>
    /\ UNCHANGED <<schedVars, isReconnecting, reconnectAttempts, loginTimeoutAttempts,
                   progressInterval, services, handlers, disconnects, probeVars, SupRest>>

\* the scan of main's startBot settles (lines 327-343)
MainScanDone(outcome) ==
    /\ ~exited
    /\ main = "scan"
    /\ CASE outcome = "code" ->
                /\ Connect
                /\ UNCHANGED <<schedVars, isReconnecting, reconnectAttempts,
                               loginTimeoutAttempts, progressInterval, services, handlers,
                               exited>>
         [] outcome = "throw" /\ platform = "qq"
                              /\ reconnectAttempts < MAX_RECONNECT_ATTEMPTS ->
                HandleDisconnect("startup_failed")
         [] OTHER ->
                /\ exited' = TRUE
                /\ UNCHANGED <<schedVars, isReconnecting, reconnectAttempts,
                               loginTimeoutAttempts, progressInterval, services, ws, handlers>>
    /\ main' = "done"
    /\ UNCHANGED <<platform, disconnects, probeVars, SupRest>>

\* calcBackoffDelayMs called on its own
CalcBackoff ==
    /\ ~exited
    /\ \E n \in BackoffArgs :
           /\ arg' = <<n>>
           /\ result' = <<CalcBackoffDelayMs(n)>>
    /\ UNCHANGED <<schedVars, supVars, SupRest>>

InitSupervisor ==
    /\ Idle
    /\ farm = "bare"
    /\ arg = <<>>
    /\ result = <<>>

NextSupervisor ==
    \/ \E wx, code \in BOOLEAN : MainStart(wx, code)
    \/ \E o \in ScanOutcomes : MainScanDone(o)
    \/ \E r \in Reasons : Disconnected(r)
    \/ \E h \in DOMAIN handlers : BackoffDone(h)
    \/ \E h \in DOMAIN handlers, o \in ScanOutcomes : ScanDone(h, o)
    \/ \E h \in DOMAIN handlers : LongWaitDone(h)
    \/ LoginSuccess
    \/ CalcBackoff

SpecSupervisor == InitSupervisor /\ [][NextSupervisor]_vars

\* every loop is stopped and the socket is closed
AllStopped ==
    /\ ~farmLoopRunning
    /\ farmCheckTimer = <<>>
    /\ ~landStatsTimer
    /\ ~listening
    /\ services = {}
    /\ ~progressInterval
    /\ ws \in {"none", "closed"}

\* a handler is in its backoff sleep or in the long wait before exit
Waiting == \E h \in DOMAIN handlers : handlers[h].pc \in {"backoff", "longwait"}

\* C33: the flag is set throughout the backoff sleep and the long wait; a
\* 'disconnected' event that arrives while it is set changes no counter, no
\* loop, no socket and no handler; a handler that takes an event on leaves every
\* loop stopped and the socket closed, and they are still so when it starts its
\* reconnect attempt
C33_Reentrancy ==
    /\ [](Waiting => isReconnecting)
    /\ [][(disconnects' # disconnects /\ isReconnecting) =>
            UNCHANGED <<schedVars, isReconnecting, reconnectAttempts, loginTimeoutAttempts,
                        progressInterval, services, ws, handlers, exited>>]_vars
    /\ [][(~isReconnecting /\ isReconnecting') => AllStopped']_vars
    /\ [][\A h \in DOMAIN handlers :
            (handlers[h].pc = "backoff" /\ handlers'[h].pc = "scan") => AllStopped]_vars

\* a handler is in the scan of its reconnect attempt, after an event that was
\* accepted when the bot ran and one that was ignored during the backoff
C33_Witness ==
    /\ \E h \in DOMAIN handlers : handlers[h].pc = "scan"
    /\ AllStopped
    /\ ~isReconnecting
    /\ \E i, j \in DOMAIN disconnects :
           i < j /\ ~disconnects[i].ignored /\ disconnects[j].ignored

\* the login of an open socket settles: it succeeds, or the socket reports a
\* login timeout
LoginOutcome == LoginSuccess \/ (ws = "open" /\ Disconnected("login_timeout"))

\* every timer runs out, every scan settles, every login settles
SpecSupervisorLive ==
    /\ SpecSupervisor
    /\ WF_vars(\E wx, code \in BOOLEAN : MainStart(wx, code))
    /\ WF_vars(\E o \in ScanOutcomes : MainScanDone(o))
    /\ \A h \in 1..MaxHandlers :
           /\ WF_vars(BackoffDone(h))
           /\ WF_vars(\E o \in ScanOutcomes : ScanDone(h, o))
           /\ WF_vars(LongWaitDone(h))
    /\ WF_vars(LoginOutcome)

\* a 'disconnected' event was accepted
Accepted == \E i \in DOMAIN disconnects : ~disconnects[i].ignored
\* the bot is logged in and its loops are started
Running == ws = "in" /\ farmLoopRunning /\ services = AllServices
\* main is through, no handler is left, nothing runs and the process lives on
Stuck == ~exited /\ main = "done" /\ LiveHandlers = {} /\ AllStopped

\* C34: once a 'disconnected' event was accepted the bot comes to run again
\* or the process exits; on wx the accepting step itself exits; the supervisor
\* is never left with everything stopped, no handler and no exit
C34_Recovers ==
    /\ Accepted ~> (Running \/ exited)
    /\ [][(platform = "wx" /\ ~isReconnecting /\ disconnects' # disconnects) => exited']_vars
    /\ []~Stuck

\* the reconnect attempt of an accepted event has failed and nothing is left
C34_Witness == Stuck /\ Accepted /\ reconnectAttempts = MAX_RECONNECT_ATTEMPTS

\* a handler is in the long wait before exit
LongWaiting == \E h \in DOMAIN handlers : handlers[h].pc = "longwait"
\* a handler is in the backoff sleep or the scan of a reconnect attempt
Reconnecting == \E h \in DOMAIN handlers : handlers[h].pc \in {"backoff", "scan"}
\* the step accepts a 'disconnected' event
Accepts == disconnects' # disconnects /\ ~isReconnecting

\* the counter stays within its maximum and only the login callback lowers it;
\* an event accepted with the attempts used up starts the long wait (or exits
\* at once), which ends in process exit with no reconnect in between; the
\* backoff sleep lasts min(60000 * 2^(max(n,1)-1), 300000) ms
C35_Bounded ==
    /\ [](reconnectAttempts <= MAX_RECONNECT_ATTEMPTS)
    /\ [][reconnectAttempts' < reconnectAttempts =>
            ws = "open" /\ ws' = "in" /\ reconnectAttempts' = 0]_vars
    /\ [][(Accepts /\ platform = "qq" /\ reconnectAttempts = MAX_RECONNECT_ATTEMPTS) =>
            (exited' \/ LongWaiting') /\ ~Reconnecting'
                /\ reconnectAttempts' = reconnectAttempts]_vars
    /\ [][LongWaiting => (exited' \/ ~Running') /\ LongWaiting' /\ ~Reconnecting']_vars
    /\ LongWaiting ~> exited
    /\ [](arg # <<>> =>
            LET n == arg[1]
                m == IF n > 1 THEN n ELSE 1
            IN  result[1] = Min(60000 * 2^(m - 1), 300000))
    /\ [](\A h \in DOMAIN handlers : handlers[h].pc = "backoff" =>
            handlers[h].delay = Min(60000 * 2^(reconnectAttempts - 1), 300000))

\* the process has exited while a handler was waiting to exit for a login timeout
ExitedOnLoginTimeout ==
    /\ exited
    /\ \E h \in DOMAIN handlers :
           handlers[h].pc = "longwait" /\ handlers[h].reason = "login_timeout"

\* C35: reconnectAttempts never exceeds MAX_RECONNECT_ATTEMPTS and is reset
\* only by a successful login; a disconnect accepted with the attempts used up
\* leads to the long wait and to process exit, not to another reconnect; the
\* backoff delay is min(60000 * 2^(max(n,1)-1), 300000) ms; and the process
\* exits over login timeouts only when MAX_LOGIN_TIMEOUT_ATTEMPTS of them have
\* accumulated since the last successful login
C35_Reconnection ==
    /\ C35_Bounded
    /\ [](loginTimeoutAttempts >= MAX_LOGIN_TIMEOUT_ATTEMPTS => exited)
    /\ [](ExitedOnLoginTimeout => loginTimeoutAttempts >= MAX_LOGIN_TIMEOUT_ATTEMPTS)

\* the process has exited over the second login timeout in a row
C35_Witness ==
    /\ ExitedOnLoginTimeout
    /\ loginTimeoutAttempts = 2
    /\ reconnectAttempts = MAX_RECONNECT_ATTEMPTS
    /\ \A i \in DOMAIN disconnects : disconnects[i].reason = "login_timeout"

====
